---- MODULE Spec2Model ----
(***************************************************************************)
(* Model of the video-studio job server: the job rows kept in the store,   *)
(* the HTTP handlers of routes/jobs.ts, the adapter registry and the four  *)
(* provider adapters (Sora, Sora stub, Veo, Veo stub).                     *)
(*                                                                         *)
(* Conventions.  A database NULL / JS null or undefined string is NULL; a  *)
(* null error object is NullError; a null progressPct is NullPct and a     *)
(* number n is Pct(n); a null outputsJson is the empty list, as            *)
(* toCanonicalJob reads it.  Job ids are the strings "1", "2", ... in      *)
(* their string order; provider ids are non-empty strings.                 *)
(***************************************************************************)
EXTENDS Integers, Sequences, FiniteSets, TLC

VARIABLES
    adapters,         \* registry.ts: provider id -> the adapter instance in the map
    rows,             \* the video_jobs table: id -> row
    usedIds,          \* ids the store has handed out (never handed out twice)
    soraJobStates,    \* SoraAdapterStub.jobStates
    veoOperationStates, \* VeoAdapterStub.operationStates
    refreshReqs,      \* history: refresh requests received per job id
    resp,             \* the last request and the response it got
    probe,            \* a caller of the stub adapters: per stub and job, the provider
                      \* job id it holds and the results of its refresh calls in a row
    submits,          \* history: per job id, the outcomes of the adapter.submit calls
    pending,          \* refresh requests that are between two of their awaits
    veoPoll,          \* a Vertex AI operation answer and the result VeoAdapter.refresh
                      \* builds from it
    ui,               \* the client: the jobs it shows, the selected job, the polling
                      \* intervals that are set and its refresh requests in flight
    veoAuth,          \* VeoAdapter.cachedToken, the clock (Date.now(), in ms) and the
                      \* last getAccessToken call
    boot,             \* process.env when registry.ts was loaded, and the last getAdapter
                      \* call of a caller
    draft             \* the client's draft (state.jobs.draft), the params of the job
                      \* created from it and the request its submit sent

\* what the routes that run from request to reply in one step never touch
aux == <<submits, pending, veoPoll, ui, veoAuth, boot, draft>>

vars == <<adapters, rows, usedIds, soraJobStates, veoOperationStates, refreshReqs, resp,
          probe, aux>>

----------------------------------------------------------------------------
(* Bounds of the model *)

MaxJobs == 2
MaxRefreshReqs == 5
MaxLimit == 2
MaxStubCalls == 5
MaxSubmits == 2
MaxFiltered == 2
MaxPending == 2
MaxRaceJobs == 1
MaxRacing == 1
MaxInFlight == 2
MaxTicks == 4
MaxTokenCalls == 2
MaxLatency == 2000

----------------------------------------------------------------------------
(* Values *)

NULL == "NULL"
NullError == [null |-> TRUE]
NullPct == <<>>
Pct(n) == <<n>>

Providers == {"sora", "veo"}
Statuses == {"queued", "running", "succeeded", "failed", "canceled", "unknown"}
TerminalStatuses == {"succeeded", "failed", "canceled"}

IdSpace == {ToString(i) : i \in 1..MaxJobs}
\* "0" is a string below every id (a cursor that is no id)
IdRank(id) == CHOOSE i \in 0..MaxJobs : ToString(i) = id
\* JS string comparison a > b on the ids
IdGt(a, b) == IdRank(a) > IdRank(b)

\* JS truthiness of a string-or-null value
Truthy(s) == s # NULL /\ s # ""

\* JS numbers: an integer or NaN
Num(n) == [nan |-> FALSE, value |-> n]
NaN == [nan |-> TRUE]
NumberToString(x) == IF x.nan THEN "NaN" ELSE ToString(x.value)

\* JS array indexing list[x]: undefined (here NULL) unless x is an index of the list
HasIndex(list, x) == ~x.nan /\ x.value >= 0 /\ x.value < Len(list)
At(list, x) == list[x.value + 1]

\* { ...a, ...b } on key/value maps
Spread(a, b) ==
    [k \in DOMAIN a \cup DOMAIN b |-> IF k \in DOMAIN b THEN b[k] ELSE a[k]]

\* JSON storage drops the keys whose value is undefined
DropUndefined(m) == [k \in {x \in DOMAIN m : m[x] # NULL} |-> m[k]]

EmptyMap == [k \in {} |-> NULL]
Put(m, k, v) == [x \in DOMAIN m \cup {k} |-> IF x = k THEN v ELSE m[x]]

----------------------------------------------------------------------------
(* Adapter registry *)

Envs ==
    [USE_STUB_ADAPTERS : {"", "true", "false"},
     OPENAI_API_KEY : {"", "sk-key"},
     GOOGLE_APPLICATION_CREDENTIALS : {"", "/sa.json"}]

useStubs(env) == env.USE_STUB_ADAPTERS = "true"

\* mutant: the flag is not consulted for Sora
soraAdapter_KeyOnly(env) ==
    IF ~Truthy(env.OPENAI_API_KEY)
    THEN "SoraAdapterStub" ELSE "SoraAdapter"

soraAdapter(env) ==
    IF useStubs(env) \/ ~Truthy(env.OPENAI_API_KEY)
    THEN "SoraAdapterStub" ELSE "SoraAdapter"

veoAdapter(env) ==
    IF useStubs(env) \/ ~Truthy(env.GOOGLE_APPLICATION_CREDENTIALS)
    THEN "VeoAdapterStub" ELSE "VeoAdapter"

Registry(env) == [sora |-> soraAdapter(env), veo |-> veoAdapter(env)]

getAdapter(providerId) == adapters[providerId]

----------------------------------------------------------------------------
(* What the providers can answer *)

\* Date.now() and Math.random() in the stubs' fake ids
SoraStubIds == {"sora_1", "sora_2"}
SoraStubRemixIds == {"sora_remix_1"}
VeoStubIds == {"operations/veo_1", "operations/veo_2"}
VeoStubExtendIds == {"operations/veo_extend_1"}

\* String.replace('operations/', '') on the operation names of the model
StripOperations(name) ==
    CASE name = "operations/veo_1" -> "veo_1"
      [] name = "operations/veo_2" -> "veo_2"
      [] name = "operations/veo_extend_1" -> "veo_extend_1"
      [] OTHER -> name

\* Sora API: the SoraVideoJob of a 2xx answer (GET /videos/{id} answers with that id)
SoraVideoIds == {"video_1", "video_2"}
SoraNativeStatuses == {"queued", "in_progress", "completed", "failed", "expired"}
SoraErrors == {[code |-> "moderation", message |-> "blocked"]}
SoraVideoJobs ==
    [id : SoraVideoIds, status : SoraNativeStatuses, progress : {Pct(50)}]
    \cup [id : SoraVideoIds, status : {"in_progress"}, progress : {NullPct}]
    \cup [id : SoraVideoIds, status : {"in_progress", "failed"}, progress : {Pct(50)},
          error : SoraErrors]

\* Vertex AI: the operation names and the VeoOperationResponse of a 2xx answer
VeoOperationNames == {"projects/p/locations/us-central1/operations/op1",
                      "projects/p/locations/us-central1/operations/op2"}
VideoBytes == [bytesBase64Encoded |-> "AAAA"]
VideoGcs == [gcsUri |-> "gs://bucket/v.mp4"]
VideoBare == [mimeType |-> "video/mp4"]
VeoVideoLists == {<<>>, <<VideoBytes>>, <<VideoGcs, VideoBare>>}
VeoErrors == {[code |-> 13, message |-> "internal"]}
VeoOperationResponses ==
    [done : {FALSE}]
    \cup [done : {TRUE}, error : VeoErrors]
    \cup [done : {TRUE}, response : [raiMediaFilteredCount : {0, 1}]]
    \cup [done : {TRUE}, response : [videos : VeoVideoLists, raiMediaFilteredCount : {0, 1}]]
    \cup [done : {TRUE}]

----------------------------------------------------------------------------
(* Adapter results.  An adapter call yields a set of outcomes, one per      *)
(* provider answer: threw says the call ended in an exception, result is   *)
(* the returned value, sora and veo are the stubs' maps after the call.    *)

Returned(r, s, v) == [threw |-> FALSE, result |-> r, sora |-> s, veo |-> v]
Threw(s, v) == [threw |-> TRUE, sora |-> s, veo |-> v]

\* sora.ts mapStatus
\* mutant: a status the adapter does not know is taken as canceled
mapStatus_OtherIsCanceled(soraStatus) ==
    CASE soraStatus = "queued" -> "queued"
      [] soraStatus = "in_progress" -> "running"
      [] soraStatus = "completed" -> "succeeded"
      [] soraStatus = "failed" -> "failed"
      [] OTHER -> "canceled"

mapStatus(soraStatus) ==
    CASE soraStatus = "queued" -> "queued"
      [] soraStatus = "in_progress" -> "running"
      [] soraStatus = "completed" -> "succeeded"
      [] soraStatus = "failed" -> "failed"
      [] OTHER -> "unknown"

\* video.progress ?? d
ProgressOr(video, d) == IF video.progress = NullPct THEN d ELSE video.progress

InitialStubState == [callCount |-> 0, completed |-> FALSE]
StubStateOf(states, id) == IF id \in DOMAIN states THEN states[id] ELSE InitialStubState

Min(a, b) == IF a < b THEN a ELSE b

SoraStubCompleteAfter == 3
VeoStubCompleteAfter == 4

(* SoraAdapterStub *)
SoraStubSubmit(job) ==
    { Returned([providerJobId |-> pid, status |-> "running", progressPct |-> Pct(0)],
               Put(soraJobStates, job.id, InitialStubState), veoOperationStates)
      : pid \in SoraStubIds }

\* mutant: completion one call late, and the completed flag is not consulted
SoraStubRefreshOn_Late(states, job) ==
    LET old == StubStateOf(states, job.id)
        callCount == old.callCount + 1
        done == callCount > SoraStubCompleteAfter
    IN  IF done
        THEN [result |-> [status |-> "succeeded", progressPct |-> Pct(100),
                          outputs |-> << [kind |-> "video/mp4",
                                          uri |-> <<"https://example.com/stub/sora/",
                                                    job.providerJobId, "/output.mp4">>] >>],
              states |-> Put(states, job.id, [callCount |-> callCount, completed |-> TRUE])]
        ELSE [result |-> [status |-> "running",
                          progressPct |-> Pct(Min(callCount * 30, 90))],
              states |-> Put(states, job.id, [callCount |-> callCount, completed |-> FALSE])]

SoraStubRefreshOn(states, job) ==
    LET old == StubStateOf(states, job.id)
        callCount == old.callCount + 1
        done == callCount >= SoraStubCompleteAfter \/ old.completed
    IN  IF done
        THEN [result |-> [status |-> "succeeded", progressPct |-> Pct(100),
                          outputs |-> << [kind |-> "video/mp4",
                                          uri |-> <<"https://example.com/stub/sora/",
                                                    job.providerJobId, "/output.mp4">>] >>],
              states |-> Put(states, job.id, [callCount |-> callCount, completed |-> TRUE])]
        ELSE [result |-> [status |-> "running",
                          progressPct |-> Pct(Min(callCount * 30, 90))],
              states |-> Put(states, job.id, [callCount |-> callCount, completed |-> FALSE])]

SoraStubRefresh(job) ==
    LET o == SoraStubRefreshOn(soraJobStates, job)
    IN  { Returned(o.result, o.states, veoOperationStates) }

SoraStubContent(job, assetIndex) ==
    { Returned([type |-> "redirect",
                url |-> <<"https://example.com/stub/sora/", job.providerJobId,
                          "/output_", NumberToString(assetIndex), ".mp4">>],
               soraJobStates, veoOperationStates) }

SoraStubRemix(job, params) ==
    { Returned([providerJobId |-> pid, status |-> "running", progressPct |-> Pct(0)],
               Put(soraJobStates, job.id, InitialStubState), veoOperationStates)
      : pid \in SoraStubRemixIds }

(* VeoAdapterStub *)
VeoStubSubmit(job) ==
    { Returned([providerJobId |-> pid, status |-> "running", progressPct |-> NullPct],
               soraJobStates, Put(veoOperationStates, job.id, InitialStubState))
      : pid \in VeoStubIds }

\* mutant: completion one call late
VeoStubRefreshOn_Late(states, job) ==
    LET old == StubStateOf(states, job.id)
        callCount == old.callCount + 1
        done == callCount > VeoStubCompleteAfter \/ old.completed
    IN  IF done
        THEN [result |-> [status |-> "succeeded", progressPct |-> Pct(100),
                          outputs |-> << [kind |-> "video/mp4",
                                          uri |-> <<"https://example.com/stub/veo/",
                                                    StripOperations(job.providerJobId),
                                                    "/output.mp4">>] >>],
              states |-> Put(states, job.id, [callCount |-> callCount, completed |-> TRUE])]
        ELSE [result |-> [status |-> "running", progressPct |-> NullPct],
              states |-> Put(states, job.id, [callCount |-> callCount, completed |-> FALSE])]

VeoStubRefreshOn(states, job) ==
    LET old == StubStateOf(states, job.id)
        callCount == old.callCount + 1
        done == callCount >= VeoStubCompleteAfter \/ old.completed
    IN  IF done
        THEN [result |-> [status |-> "succeeded", progressPct |-> Pct(100),
                          outputs |-> << [kind |-> "video/mp4",
                                          uri |-> <<"https://example.com/stub/veo/",
                                                    StripOperations(job.providerJobId),
                                                    "/output.mp4">>] >>],
              states |-> Put(states, job.id, [callCount |-> callCount, completed |-> TRUE])]
        ELSE [result |-> [status |-> "running", progressPct |-> NullPct],
              states |-> Put(states, job.id, [callCount |-> callCount, completed |-> FALSE])]

VeoStubRefresh(job) ==
    LET o == VeoStubRefreshOn(veoOperationStates, job)
    IN  { Returned(o.result, soraJobStates, o.states) }

VeoStubContent(job, assetIndex) ==
    { Returned([type |-> "redirect",
                url |-> <<"https://example.com/stub/veo/",
                          IF job.providerJobId = NULL THEN "unknown"
                          ELSE StripOperations(job.providerJobId),
                          "/output_", NumberToString(assetIndex), ".mp4">>],
               soraJobStates, veoOperationStates) }

VeoStubExtend(job, params) ==
    { Returned([providerJobId |-> pid, status |-> "running", progressPct |-> NullPct],
               soraJobStates, Put(veoOperationStates, job.id, InitialStubState))
      : pid \in VeoStubExtendIds }

(* SoraAdapter *)
SoraSubmit(job) ==
    { Threw(soraJobStates, veoOperationStates) }
    \cup { Returned([providerJobId |-> video.id, status |-> mapStatus(video.status),
                     progressPct |-> ProgressOr(video, Pct(0))],
                    soraJobStates, veoOperationStates)
           : video \in SoraVideoJobs }

SoraRefreshResult(video) ==
    LET base == [status |-> mapStatus(video.status), progressPct |-> video.progress]
        withOutputs ==
            IF video.status = "completed"
            THEN Put(base, "outputs",
                     << [kind |-> "video/mp4", uri |-> <<"sora://", video.id, "/content">>] >>)
            ELSE base
    IN  IF video.status = "failed" /\ "error" \in DOMAIN video
        THEN Put(withOutputs, "error",
                 [message |-> IF video.error.message # "" THEN <<video.error.message>>
                              ELSE <<"Video generation failed">>,
                  raw |-> video.error.code])
        ELSE withOutputs

SoraRefresh(job) ==
    IF ~Truthy(job.providerJobId)
    THEN { Threw(soraJobStates, veoOperationStates) }
    ELSE { Threw(soraJobStates, veoOperationStates) }
         \cup { Returned(SoraRefreshResult(video), soraJobStates, veoOperationStates)
                : video \in {v \in SoraVideoJobs : v.id = job.providerJobId} }

SoraContent(job, assetIndex) ==
    IF ~Truthy(job.providerJobId)
    THEN { Threw(soraJobStates, veoOperationStates) }
    ELSE { Threw(soraJobStates, veoOperationStates),
           Returned([type |-> "stream", contentType |-> "video/mp4",
                     stream |-> <<"GET", job.providerJobId, "/content">>],
                    soraJobStates, veoOperationStates) }

SoraRemix(job, params) ==
    IF ~Truthy(job.providerJobId) \/ job.status # "succeeded"
    THEN { Threw(soraJobStates, veoOperationStates) }
    ELSE { Threw(soraJobStates, veoOperationStates) }
         \cup { Returned([providerJobId |-> video.id, status |-> mapStatus(video.status),
                          progressPct |-> ProgressOr(video, Pct(0))],
                         soraJobStates, veoOperationStates)
                : video \in SoraVideoJobs }

(* VeoAdapter *)
DEFAULT_MODEL == "veo-3.1-generate-preview"
VeoModels == {"veo-3.1-generate-preview", "veo-3.0-generate-001", "veo-2.0-generate-001"}

\* params?.model || process.env.VEO_MODEL || DEFAULT_MODEL, with VEO_MODEL unset
getModel(params) ==
    IF "model" \in DOMAIN params /\ Truthy(params["model"]) THEN params["model"]
    ELSE DEFAULT_MODEL

\* model.includes('veo-2.0-generate-001') || model.startsWith('veo-3.1')
supportsExtend(model) ==
    model \in {"veo-2.0-generate-001", "veo-3.1-generate-preview"}

VeoSubmit(job) ==
    { Threw(soraJobStates, veoOperationStates) }
    \cup { Returned([providerJobId |-> name, status |-> "running", progressPct |-> NullPct],
                    soraJobStates, veoOperationStates)
           : name \in VeoOperationNames }

VeoOutput(job, video, index) ==
    IF "bytesBase64Encoded" \in DOMAIN video
    THEN [kind |-> "video/mp4", uri |-> <<"veo://", job.id, "/output_", ToString(index)>>,
          bytesBase64 |-> video.bytesBase64Encoded]
    ELSE [kind |-> "video/mp4",
          uri |-> IF "gcsUri" \in DOMAIN video THEN <<video.gcsUri>>
                  ELSE <<"veo://", job.id, "/output_", ToString(index)>>]

VeoRefreshResult(job, response) ==
    IF ~response.done
    THEN [status |-> "running", progressPct |-> NullPct]
    ELSE IF "error" \in DOMAIN response
    THEN [status |-> "failed", progressPct |-> NullPct,
          error |-> [message |-> IF response.error.message # ""
                                 THEN <<response.error.message>>
                                 ELSE <<"Video generation failed">>,
                     raw |-> ToString(response.error.code)]]
    ELSE IF /\ "response" \in DOMAIN response
            /\ "videos" \in DOMAIN response.response
            /\ Len(response.response.videos) > 0
    THEN LET videos == response.response.videos
             outputs == [i \in 1..Len(videos) |-> VeoOutput(job, videos[i], i - 1)]
             filtered == IF "raiMediaFilteredCount" \in DOMAIN response.response
                         THEN response.response.raiMediaFilteredCount ELSE 0
         IN  IF filtered > 0
             THEN [status |-> "failed", progressPct |-> NullPct, outputs |-> outputs,
                   error |-> [message |-> <<ToString(filtered),
                                            " video(s) filtered by content policy">>,
                              raw |-> "raiMediaFilteredReasons"]]
             ELSE [status |-> "succeeded", progressPct |-> Pct(100), outputs |-> outputs]
    ELSE [status |-> "failed", progressPct |-> NullPct,
          error |-> [message |-> <<"Operation completed but no videos returned">>]]

VeoRefresh(job) ==
    IF ~Truthy(job.providerJobId)
    THEN { Threw(soraJobStates, veoOperationStates) }
    ELSE { Threw(soraJobStates, veoOperationStates) }
         \cup { Returned(VeoRefreshResult(job, response), soraJobStates, veoOperationStates)
                : response \in VeoOperationResponses }

VeoContent(job, assetIndex) ==
    IF ~HasIndex(job.outputs, assetIndex)
    THEN { Threw(soraJobStates, veoOperationStates) }
    ELSE IF "bytesBase64" \in DOMAIN At(job.outputs, assetIndex)
    THEN { Returned([type |-> "stream", contentType |-> "video/mp4",
                     stream |-> <<At(job.outputs, assetIndex).bytesBase64>>],
                    soraJobStates, veoOperationStates) }
    ELSE { Threw(soraJobStates, veoOperationStates) }

\* an outcome of the real adapter's extend, with the parameters it was called with and
\* whether it sent a request to the provider
Sent(outcome, params, sent) == outcome @@ [params |-> params, sent |-> sent]

\* mutant: the source asset is looked at only after the token request
VeoExtend_AssetAfterToken(job, params) ==
    LET extendParams == IF "params" \in DOMAIN params THEN params.params ELSE EmptyMap
    IN  IF \/ ~Truthy(job.providerJobId)
           \/ job.status # "succeeded"
           \/ ~supportsExtend(getModel(extendParams))
        THEN { Sent(Threw(soraJobStates, veoOperationStates), params, FALSE) }
        ELSE { Sent(Threw(soraJobStates, veoOperationStates), params, TRUE) }

\* the throws before the request are the preconditions; after them the credentials
\* are read, the token is requested and predictLongRunning is posted
VeoExtend(job, params) ==
    LET sourceAssetIndex ==
            IF "sourceAssetIndex" \in DOMAIN params THEN Num(params.sourceAssetIndex)
            ELSE Num(0)
        extendParams == IF "params" \in DOMAIN params THEN params.params ELSE EmptyMap
    IN  IF \/ ~Truthy(job.providerJobId)
           \/ job.status # "succeeded"
           \/ ~supportsExtend(getModel(extendParams))
           \/ ~HasIndex(job.outputs, sourceAssetIndex)
           \/ "bytesBase64" \notin DOMAIN At(job.outputs, sourceAssetIndex)
        THEN { Sent(Threw(soraJobStates, veoOperationStates), params, FALSE) }
        ELSE { Sent(Threw(soraJobStates, veoOperationStates), params, sent) : sent \in BOOLEAN }
             \cup { Sent(Returned([providerJobId |-> name, status |-> "running",
                                   progressPct |-> NullPct],
                                  soraJobStates, veoOperationStates), params, TRUE)
                    : name \in VeoOperationNames }

StubAdapters == {"SoraAdapterStub", "VeoAdapterStub"}

\* the job ids the direct caller of the stubs uses
ProbeIds == {"1", "2"}

(* The call through the ProviderAdapter interface *)
AdapterSubmit(adapter, job) ==
    CASE adapter = "SoraAdapterStub" -> SoraStubSubmit(job)
      [] adapter = "SoraAdapter" -> SoraSubmit(job)
      [] adapter = "VeoAdapterStub" -> VeoStubSubmit(job)
      [] adapter = "VeoAdapter" -> VeoSubmit(job)

AdapterRefresh(adapter, job) ==
    CASE adapter = "SoraAdapterStub" -> SoraStubRefresh(job)
      [] adapter = "SoraAdapter" -> SoraRefresh(job)
      [] adapter = "VeoAdapterStub" -> VeoStubRefresh(job)
      [] adapter = "VeoAdapter" -> VeoRefresh(job)

AdapterContent(adapter, job, assetIndex) ==
    CASE adapter = "SoraAdapterStub" -> SoraStubContent(job, assetIndex)
      [] adapter = "SoraAdapter" -> SoraContent(job, assetIndex)
      [] adapter = "VeoAdapterStub" -> VeoStubContent(job, assetIndex)
      [] adapter = "VeoAdapter" -> VeoContent(job, assetIndex)

\* adapter.remix / adapter.extend are optional methods
HasRemix(adapter) == adapter \in {"SoraAdapterStub", "SoraAdapter"}
HasExtend(adapter) == adapter \in {"VeoAdapterStub", "VeoAdapter"}

AdapterRemix(adapter, job, params) ==
    CASE adapter = "SoraAdapterStub" -> SoraStubRemix(job, params)
      [] adapter = "SoraAdapter" -> SoraRemix(job, params)

AdapterExtend(adapter, job, params) ==
    CASE adapter = "VeoAdapterStub" -> VeoStubExtend(job, params)
      [] adapter = "VeoAdapter" -> VeoExtend(job, params)

----------------------------------------------------------------------------
(* The store and the requests *)

\* prompts and search strings are lists of characters
Prompts == {<<"a">>, <<"A", "b">>}

\* the bodies of POST /jobs (mode and params are optional: NULL is undefined)
CreateBodies ==
    {[provider |-> "sora", prompt |-> <<"a">>, mode |-> NULL,
      params |-> [sourceJobId |-> "other"]],
     [provider |-> "veo", prompt |-> <<"A", "b">>, mode |-> "generate",
      params |-> [model |-> "veo-3.0-generate-001", mode |-> "draft",
                  sourceProviderJobId |-> "other"]],
     [provider |-> "sora", prompt |-> <<>>, mode |-> NULL, params |-> EmptyMap]}

\* createJobSchema
createJobSchema(body) == body.provider \in Providers /\ Len(body.prompt) >= 1

NoBody == [none |-> TRUE]
Response(op, id, status, code, calls) ==
    [op |-> op, id |-> id, status |-> status, code |-> code, calls |-> calls,
     body |-> NoBody]
NotFound(op, id) == Response(op, id, 404, "NOT_FOUND", <<>>)

\* server.setErrorHandler: an exception thrown in a handler
InternalError(op, id, calls) == Response(op, id, 500, "INTERNAL_ERROR", calls)

\* toCanonicalJob: the API shape of a row
toCanonicalJob(row) ==
    [id |-> row.id, provider |-> row.provider, providerJobId |-> row.providerJobId,
     status |-> row.status, progressPct |-> row.progressPct, createdAt |-> row.createdAt,
     prompt |-> row.prompt, params |-> row.paramsJson, outputs |-> row.outputsJson,
     error |-> row.errorJson,
     actions |-> [canDownload |-> row.status = "succeeded", canDelete |-> TRUE,
                  canRemix |-> row.provider = "sora" /\ row.status = "succeeded",
                  canExtend |-> row.provider = "veo" /\ row.status = "succeeded"]]

\* a 200 reply whose data is a job
JobReply(op, row, calls) ==
    [Response(op, row.id, 200, "OK", calls) EXCEPT !.body = [data |-> toCanonicalJob(row)]]

\* the jobContext the handlers build from a row
JobContext(job) ==
    [id |-> job.id, providerJobId |-> job.providerJobId, prompt |-> job.prompt,
     params |-> job.paramsJson, status |-> job.status, outputs |-> job.outputsJson]

\* private cachedToken: CachedToken | null = null
NoToken == [null |-> TRUE]

\* defaultDraft, with no job created yet
NoJob == [none |-> TRUE]
defaultDraft == [provider |-> "veo", params |-> EmptyMap, job |-> NoJob, request |-> NoJob]

AuxInit ==
    /\ draft = defaultDraft
    /\ submits = [id \in IdSpace |-> <<>>]
    /\ pending = {}
    /\ veoPoll = [none |-> TRUE]
    /\ ui = [jobs |-> [id \in IdSpace |-> "absent"], selectedJobId |-> NULL,
             intervals |-> {}, inFlight |-> [id \in IdSpace |-> 0]]
    /\ veoAuth = [now |-> 0, ticks |-> 0, cachedToken |-> NoToken, last |-> [none |-> TRUE],
                  inFlight |-> {}, issued |-> {}, done |-> [none |-> TRUE]]

\* the environment is not looked at again after registry.ts was loaded
NoBoot == [none |-> TRUE]

Init ==
    /\ AuxInit
    /\ boot = NoBoot
    /\ adapters \in {Registry(env) : env \in Envs}
    /\ rows = [id \in {} |-> NULL]
    /\ usedIds = {}
    /\ soraJobStates = [id \in {} |-> NULL]
    /\ veoOperationStates = [id \in {} |-> NULL]
    /\ refreshReqs = [id \in IdSpace |-> 0]
    /\ resp = Response("start", NULL, 200, "OK", <<>>)
    /\ probe = [a \in StubAdapters |->
                   [id \in ProbeIds |-> [providerJobId |-> NULL, results |-> <<>>]]]

\* a row of video_jobs: the columns of the data and the defaults of the others
Row(id, data, createdAt) ==
    [id |-> id, provider |-> data.provider, providerJobId |-> data.providerJobId,
     status |-> data.status, progressPct |-> data.progressPct, prompt |-> data.prompt,
     paramsJson |-> data.paramsJson, outputsJson |-> <<>>, errorJson |-> NullError,
     createdAt |-> createdAt]

\* prisma.videoJob.create: a fresh id and the creation time
NewRow(id, data) == Row(id, data, Cardinality(usedIds) + 1)

Insert(id, data) == [x \in DOMAIN rows \cup {id} |-> IF x = id THEN NewRow(id, data) ELSE rows[x]]

(* POST /jobs *)
CreateData(body) ==
    [provider |-> body.provider, providerJobId |-> NULL, status |-> "queued",
     progressPct |-> NullPct, prompt |-> body.prompt,
     paramsJson |-> DropUndefined(Spread(body.params, [mode |-> body.mode, assets |-> NULL]))]

Create ==
    \E body \in CreateBodies :
        IF ~createJobSchema(body)
        THEN /\ resp' = Response("create", NULL, 400, "VALIDATION_ERROR", <<>>)
             /\ UNCHANGED <<adapters, rows, usedIds, soraJobStates, veoOperationStates,
                            refreshReqs, probe, aux>>
        ELSE \E id \in IdSpace \ usedIds :
             /\ rows' = Insert(id, CreateData(body))
             /\ usedIds' = usedIds \cup {id}
             /\ resp' = Response("create", id, 201, "OK", <<>>)
             /\ UNCHANGED <<adapters, soraJobStates, veoOperationStates, refreshReqs, probe, aux>>

(* GET /jobs/:id *)
Get ==
    \E id \in IdSpace :
        /\ resp' = IF id \notin DOMAIN rows THEN NotFound("get", id)
                   ELSE JobReply("get", rows[id], <<>>)
        /\ UNCHANGED <<adapters, rows, usedIds, soraJobStates, veoOperationStates,
                       refreshReqs, probe, aux>>

(* DELETE /jobs/:id *)
\* mutant: the reply says deleted but the row stays
Delete_KeepsRow ==
    \E id \in IdSpace :
        /\ resp' = IF id \notin DOMAIN rows THEN NotFound("delete", id)
                   ELSE Response("delete", id, 200, "OK", <<>>)
        /\ UNCHANGED <<adapters, rows, usedIds, soraJobStates, veoOperationStates,
                       refreshReqs, probe, aux>>

Delete ==
    \E id \in IdSpace :
        IF id \notin DOMAIN rows
        THEN /\ resp' = NotFound("delete", id)
             /\ UNCHANGED <<adapters, rows, usedIds, soraJobStates, veoOperationStates,
                            refreshReqs, probe, aux>>
        ELSE /\ rows' = [x \in DOMAIN rows \ {id} |-> rows[x]]
             /\ resp' = Response("delete", id, 200, "OK", <<>>)
             /\ UNCHANGED <<adapters, usedIds, soraJobStates, veoOperationStates,
                            refreshReqs, probe, aux>>

(* POST /jobs/:id/refresh *)
\* mutant: the update after submit does not write the provider job id
SubmitUpdate_StatusOnly(job, submitResult) ==
    [job EXCEPT !.status = submitResult.status,
                !.progressPct = submitResult.progressPct]

\* data: { providerJobId, status, progressPct } of the submit result
SubmitUpdate(job, submitResult) ==
    [job EXCEPT !.providerJobId = submitResult.providerJobId,
                !.status = submitResult.status,
                !.progressPct = submitResult.progressPct]

\* mutant: the outputs of the result are not persisted
RefreshUpdate_NoOutputs(job, refreshResult) ==
    LET a == [job EXCEPT !.status = refreshResult.status,
                         !.progressPct = refreshResult.progressPct]
    IN  IF "error" \in DOMAIN refreshResult
        THEN [a EXCEPT !.errorJson = refreshResult.error] ELSE a

RefreshUpdate(job, refreshResult) ==
    LET a == [job EXCEPT !.status = refreshResult.status,
                         !.progressPct = refreshResult.progressPct]
        b == IF "outputs" \in DOMAIN refreshResult
             THEN [a EXCEPT !.outputsJson = refreshResult.outputs] ELSE a
    IN  IF "error" \in DOMAIN refreshResult
        THEN [b EXCEPT !.errorJson = refreshResult.error] ELSE b

\* mutant: no short-circuit for rows that are already terminal
RefreshBranch_NoTerminal(job) ==
    IF ~Truthy(job.providerJobId) THEN "submit" ELSE "refresh"

\* mutant: a row still queued is submitted again
RefreshBranch_SubmitWhileQueued(job) ==
    IF job.status \in TerminalStatuses THEN "terminal"
    ELSE IF ~Truthy(job.providerJobId) \/ job.status = "queued" THEN "submit"
    ELSE "refresh"

\* mutant: only succeeded rows are short-circuited
RefreshBranch_SucceededOnly(job) ==
    IF job.status = "succeeded" THEN "terminal"
    ELSE IF ~Truthy(job.providerJobId) THEN "submit"
    ELSE "refresh"

\* which branch the refresh handler takes for a row
RefreshBranch(job) ==
    IF job.status \in TerminalStatuses THEN "terminal"
    ELSE IF ~Truthy(job.providerJobId) THEN "submit"
    ELSE "refresh"

\* mutant: a provider call that throws marks the job failed
RefreshHandler_FailsJobOnThrow(id) ==
    IF id \notin DOMAIN rows
    THEN /\ resp' = NotFound("refresh", id)
         /\ UNCHANGED <<adapters, rows, usedIds, soraJobStates, veoOperationStates>>
    ELSE /\ UNCHANGED <<adapters, usedIds>>
         /\ LET job == rows[id]
                adapter == getAdapter(job.provider)
                branch == RefreshBranch(job)
            IN  IF branch = "terminal"
                THEN /\ resp' = JobReply("refresh", job, <<>>)
                     /\ UNCHANGED <<rows, soraJobStates, veoOperationStates>>
                ELSE \E o \in IF branch = "submit"
                              THEN AdapterSubmit(adapter, JobContext(job))
                              ELSE AdapterRefresh(adapter, JobContext(job)) :
                     /\ soraJobStates' = o.sora
                     /\ veoOperationStates' = o.veo
                     /\ IF o.threw
                        THEN /\ resp' = InternalError("refresh", id, <<branch>>)
                             /\ rows' = [rows EXCEPT ![id].status = "failed"]
                        ELSE LET updatedJob == IF branch = "submit"
                                               THEN SubmitUpdate(job, o.result)
                                               ELSE RefreshUpdate(job, o.result)
                             IN  /\ resp' = JobReply("refresh", updatedJob, <<branch>>)
                                 /\ rows' = [rows EXCEPT ![id] = updatedJob]

\* POST /jobs/:id/refresh
RefreshHandler(id) ==
    IF id \notin DOMAIN rows
    THEN /\ resp' = NotFound("refresh", id)
         /\ UNCHANGED <<adapters, rows, usedIds, soraJobStates, veoOperationStates>>
    ELSE /\ UNCHANGED <<adapters, usedIds>>
         /\ LET job == rows[id]
                adapter == getAdapter(job.provider)
                branch == RefreshBranch(job)
            IN  IF branch = "terminal"
                THEN /\ resp' = JobReply("refresh", job, <<>>)
                     /\ UNCHANGED <<rows, soraJobStates, veoOperationStates>>
                ELSE \E o \in IF branch = "submit"
                              THEN AdapterSubmit(adapter, JobContext(job))
                              ELSE AdapterRefresh(adapter, JobContext(job)) :
                     /\ soraJobStates' = o.sora
                     /\ veoOperationStates' = o.veo
                     /\ IF o.threw
                        THEN /\ resp' = InternalError("refresh", id, <<branch>>)
                             /\ UNCHANGED rows
                        ELSE LET updatedJob == IF branch = "submit"
                                               THEN SubmitUpdate(job, o.result)
                                               ELSE RefreshUpdate(job, o.result)
                             IN  /\ resp' = JobReply("refresh", updatedJob, <<branch>>)
                                 /\ rows' = [rows EXCEPT ![id] = updatedJob]

Refresh ==
    \E id \in IdSpace : RefreshHandler(id) /\ UNCHANGED <<refreshReqs, probe, aux>>


(* POST /jobs/:id/remix and POST /jobs/:id/extend *)

\* JSON values of a request body; an optional field is a field the record may lack
JStr(chars) == [type |-> "string", chars |-> chars]
JNum(n) == [type |-> "number", number |-> n]
JObj(m) == [type |-> "object", fields |-> m]
JValue(v) ==
    CASE v.type = "string" -> v.chars
      [] v.type = "number" -> v.number
      [] v.type = "object" -> v.fields
NoFields == [k \in {} |-> NULL]

RemixBodies == {NoFields, [prompt |-> JStr(<<>>)], [prompt |-> JStr(<<"b">>)],
                [prompt |-> JNum(7)]}

ExtendBodies ==
    {NoFields,
     [prompt |-> JStr(<<"b">>), sourceAssetIndex |-> JNum(1)],
     [params |-> JObj([model |-> "veo-3.0-generate-001", sourceJobId |-> "other"])],
     [sourceAssetIndex |-> JNum(-1)]}

\* remixJobSchema / extendJobSchema
remixJobSchema(body) == "prompt" \in DOMAIN body => body.prompt.type = "string"

extendJobSchema(body) ==
    /\ "prompt" \in DOMAIN body => body.prompt.type = "string"
    /\ "sourceAssetIndex" \in DOMAIN body =>
           body.sourceAssetIndex.type = "number" /\ body.sourceAssetIndex.number >= 0
    /\ "params" \in DOMAIN body => body.params.type = "object"

\* parsed.data: the fields of the body, unwrapped
Parsed(body) == [k \in DOMAIN body |-> JValue(body[k])]

\* parsed.data.prompt || sourceJob.prompt
PromptOr(data, sourceJob) ==
    IF "prompt" \in DOMAIN data /\ Len(data.prompt) > 0 THEN data.prompt ELSE sourceJob.prompt

\* mutant: the provider job id is checked before the status
RemixCheck_IdBeforeStatus(sourceJob) ==
    IF sourceJob.provider # "sora" THEN Response("remix", sourceJob.id, 400, "UNSUPPORTED_OPERATION", <<>>)
    ELSE IF ~Truthy(sourceJob.providerJobId) THEN Response("remix", sourceJob.id, 400, "MISSING_PROVIDER_JOB", <<>>)
    ELSE IF sourceJob.status # "succeeded" THEN Response("remix", sourceJob.id, 400, "JOB_NOT_COMPLETE", <<>>)
    ELSE IF ~HasRemix(getAdapter(sourceJob.provider)) THEN Response("remix", sourceJob.id, 501, "NOT_IMPLEMENTED", <<>>)
    ELSE Response("remix", sourceJob.id, 201, "OK", <<"remix">>)

\* the precondition checks of the remix handler, in the order of the code
RemixCheck(sourceJob) ==
    IF sourceJob.provider # "sora" THEN Response("remix", sourceJob.id, 400, "UNSUPPORTED_OPERATION", <<>>)
    ELSE IF sourceJob.status # "succeeded" THEN Response("remix", sourceJob.id, 400, "JOB_NOT_COMPLETE", <<>>)
    ELSE IF ~Truthy(sourceJob.providerJobId) THEN Response("remix", sourceJob.id, 400, "MISSING_PROVIDER_JOB", <<>>)
    ELSE IF ~HasRemix(getAdapter(sourceJob.provider)) THEN Response("remix", sourceJob.id, 501, "NOT_IMPLEMENTED", <<>>)
    ELSE Response("remix", sourceJob.id, 201, "OK", <<"remix">>)

\* mutant: the status is checked before the provider
ExtendCheck_StatusBeforeProvider(sourceJob) ==
    IF sourceJob.status # "succeeded" THEN Response("extend", sourceJob.id, 400, "JOB_NOT_COMPLETE", <<>>)
    ELSE IF sourceJob.provider # "veo" THEN Response("extend", sourceJob.id, 400, "UNSUPPORTED_OPERATION", <<>>)
    ELSE IF ~Truthy(sourceJob.providerJobId) THEN Response("extend", sourceJob.id, 400, "MISSING_PROVIDER_JOB", <<>>)
    ELSE IF ~HasExtend(getAdapter(sourceJob.provider)) THEN Response("extend", sourceJob.id, 501, "NOT_IMPLEMENTED", <<>>)
    ELSE Response("extend", sourceJob.id, 201, "OK", <<"extend">>)

\* the precondition checks of the extend handler, in the order of the code
ExtendCheck(sourceJob) ==
    IF sourceJob.provider # "veo" THEN Response("extend", sourceJob.id, 400, "UNSUPPORTED_OPERATION", <<>>)
    ELSE IF sourceJob.status # "succeeded" THEN Response("extend", sourceJob.id, 400, "JOB_NOT_COMPLETE", <<>>)
    ELSE IF ~Truthy(sourceJob.providerJobId) THEN Response("extend", sourceJob.id, 400, "MISSING_PROVIDER_JOB", <<>>)
    ELSE IF ~HasExtend(getAdapter(sourceJob.provider)) THEN Response("extend", sourceJob.id, 501, "NOT_IMPLEMENTED", <<>>)
    ELSE Response("extend", sourceJob.id, 201, "OK", <<"extend">>)

\* mutant: the source's params are spread over the back-reference
RemixData_SourceParamsLast(sourceJob, data, remixResult) ==
    [provider |-> sourceJob.provider, providerJobId |-> remixResult.providerJobId,
     prompt |-> PromptOr(data, sourceJob), status |-> remixResult.status,
     progressPct |-> remixResult.progressPct,
     paramsJson |-> Spread([mode |-> "remix", sourceJobId |-> sourceJob.id,
                            sourceProviderJobId |-> sourceJob.providerJobId],
                           sourceJob.paramsJson)]

RemixData(sourceJob, data, remixResult) ==
    [provider |-> sourceJob.provider, providerJobId |-> remixResult.providerJobId,
     prompt |-> PromptOr(data, sourceJob), status |-> remixResult.status,
     progressPct |-> remixResult.progressPct,
     paramsJson |-> Spread(sourceJob.paramsJson,
                           [mode |-> "remix", sourceJobId |-> sourceJob.id,
                            sourceProviderJobId |-> sourceJob.providerJobId])]

ExtendData(sourceJob, data, extendResult) ==
    [provider |-> sourceJob.provider, providerJobId |-> extendResult.providerJobId,
     prompt |-> PromptOr(data, sourceJob), status |-> extendResult.status,
     progressPct |-> extendResult.progressPct,
     paramsJson |-> Spread(Spread(sourceJob.paramsJson,
                                  IF "params" \in DOMAIN data THEN data.params ELSE EmptyMap),
                           [mode |-> "extend", sourceJobId |-> sourceJob.id,
                            sourceProviderJobId |-> sourceJob.providerJobId])]

\* mutant: the derived job is written over the source row
CreateDerived_UpdateSource(sourceJob, new, data) ==
    [rows EXCEPT ![sourceJob.id] = NewRow(sourceJob.id, data)]

\* prisma.videoJob.create of the remix / extend handler: the derived job is a new row
CreateDerived(sourceJob, new, data) == Insert(new, data)

\* the part remix and extend share: reply with the failed check, or call the adapter
\* and create the derived row
Derive(op, sourceJob, request, check, outcomes, data(_)) ==
    IF check.code # "OK"
    THEN /\ resp' = check
         /\ UNCHANGED <<adapters, rows, usedIds, soraJobStates, veoOperationStates,
                        refreshReqs, probe, aux>>
    ELSE \E o \in outcomes :
         /\ soraJobStates' = o.sora
         /\ veoOperationStates' = o.veo
         /\ UNCHANGED <<adapters, refreshReqs, probe, aux>>
         /\ IF o.threw
            THEN /\ resp' = IF "sent" \in DOMAIN o
                            THEN Sent(InternalError(op, sourceJob.id, check.calls),
                                      o.params, o.sent)
                            ELSE InternalError(op, sourceJob.id, check.calls)
                 /\ UNCHANGED <<rows, usedIds>>
            ELSE \E new \in IdSpace \ usedIds :
                 /\ rows' = CreateDerived(sourceJob, new, data(o.result))
                 /\ usedIds' = usedIds \cup {new}
                 /\ resp' = LET created == [check EXCEPT !.body = [id |-> new]]
                                               @@ [request |-> request, result |-> o.result]
                            IN  IF "sent" \in DOMAIN o THEN Sent(created, o.params, o.sent)
                                ELSE created

Remix ==
    \E id \in IdSpace, body \in RemixBodies :
        IF ~remixJobSchema(body)
        THEN /\ resp' = Response("remix", id, 400, "VALIDATION_ERROR", <<>>)
             /\ UNCHANGED <<adapters, rows, usedIds, soraJobStates, veoOperationStates,
                            refreshReqs, probe, aux>>
        ELSE IF id \notin DOMAIN rows
        THEN /\ resp' = NotFound("remix", id)
             /\ UNCHANGED <<adapters, rows, usedIds, soraJobStates, veoOperationStates,
                            refreshReqs, probe, aux>>
        ELSE LET sourceJob == rows[id]
                 data == Parsed(body)
                 check == RemixCheck(sourceJob)
                 Data(result) == RemixData(sourceJob, data, result)
             IN  Derive("remix", sourceJob, data, check,
                        IF check.code = "OK"
                        THEN AdapterRemix(getAdapter(sourceJob.provider),
                                          JobContext(sourceJob), data)
                        ELSE {},
                        Data)

Extend ==
    \E id \in IdSpace, body \in ExtendBodies :
        IF ~extendJobSchema(body)
        THEN /\ resp' = Response("extend", id, 400, "VALIDATION_ERROR", <<>>)
             /\ UNCHANGED <<adapters, rows, usedIds, soraJobStates, veoOperationStates,
                            refreshReqs, probe, aux>>
        ELSE IF id \notin DOMAIN rows
        THEN /\ resp' = NotFound("extend", id)
             /\ UNCHANGED <<adapters, rows, usedIds, soraJobStates, veoOperationStates,
                            refreshReqs, probe, aux>>
        ELSE LET sourceJob == rows[id]
                 data == Parsed(body)
                 check == ExtendCheck(sourceJob)
                 Data(result) == ExtendData(sourceJob, data, result)
             IN  Derive("extend", sourceJob, data, check,
                        IF check.code = "OK"
                        THEN AdapterExtend(getAdapter(sourceJob.provider),
                                           JobContext(sourceJob), data)
                        ELSE {},
                        Data)


(* GET /jobs/:id/content *)

\* the values of the asset query parameter, as lists of characters (none: the
\* parameter is absent or empty)
AssetQueries == {<<>>, <<"0">>, <<"1">>, <<"2">>, <<"-", "1">>, <<"x">>, <<"1", "x">>}

IsDigit(c) == c \in {"0", "1", "2", "3", "4", "5", "6", "7", "8", "9"}
DigitValue(c) ==
    CASE c = "0" -> 0 [] c = "1" -> 1 [] c = "2" -> 2 [] c = "3" -> 3 [] c = "4" -> 4
      [] c = "5" -> 5 [] c = "6" -> 6 [] c = "7" -> 7 [] c = "8" -> 8 [] c = "9" -> 9

\* the longest prefix of digits, read in base 10: <<value, number of digits>>
RECURSIVE ReadDigits(_, _, _)
ReadDigits(chars, value, count) ==
    IF chars = <<>> \/ ~IsDigit(Head(chars)) THEN <<value, count>>
    ELSE ReadDigits(Tail(chars), value * 10 + DigitValue(Head(chars)), count + 1)

RECURSIVE SkipSpaces(_)
SkipSpaces(chars) ==
    IF chars # <<>> /\ Head(chars) = " " THEN SkipSpaces(Tail(chars)) ELSE chars

\* parseInt(chars, 10)
parseInt(chars) ==
    LET trimmed == SkipSpaces(chars)
        signed == trimmed # <<>> /\ Head(trimmed) \in {"-", "+"}
        digits == ReadDigits(IF signed THEN Tail(trimmed) ELSE trimmed, 0, 0)
    IN  IF digits[2] = 0 THEN NaN
        ELSE IF signed /\ Head(trimmed) = "-" THEN Num(0 - digits[1])
        ELSE Num(digits[1])

\* asset ? parseInt(asset, 10) : 0
AssetIndex(asset) == IF Len(asset) > 0 THEN parseInt(asset) ELSE Num(0)

ContentReply(id, assetIndex, contentResult) ==
    [Response("content", id,
              IF contentResult.type = "redirect" THEN 302
              ELSE IF contentResult.type = "stream" THEN 200 ELSE 500,
              IF contentResult.type = "redirect" THEN "REDIRECT"
              ELSE IF contentResult.type = "stream" THEN "STREAM" ELSE "CONTENT_ERROR",
              <<"content">>)
     EXCEPT !.body = [assetIndex |-> assetIndex]]

Content ==
    \E id \in IdSpace, asset \in AssetQueries :
        /\ UNCHANGED <<adapters, rows, usedIds, refreshReqs, probe, aux>>
        /\ IF id \notin DOMAIN rows
           THEN /\ resp' = NotFound("content", id)
                /\ UNCHANGED <<soraJobStates, veoOperationStates>>
           ELSE IF rows[id].status # "succeeded"
           THEN /\ resp' = Response("content", id, 400, "JOB_NOT_COMPLETE", <<>>)
                /\ UNCHANGED <<soraJobStates, veoOperationStates>>
           ELSE \E o \in AdapterContent(getAdapter(rows[id].provider), JobContext(rows[id]),
                                        AssetIndex(asset)) :
                /\ soraJobStates' = o.sora
                /\ veoOperationStates' = o.veo
                /\ resp' = IF o.threw
                           THEN [InternalError("content", id, <<"content">>)
                                 EXCEPT !.body = [assetIndex |-> AssetIndex(asset)]]
                           ELSE ContentReply(id, AssetIndex(asset), o.result)


(* GET /jobs *)

DefaultLimit == 20
MinLimit == 1
MaxLimitAllowed == 100

\* the query strings: provider, status and cursor are NULL when absent or empty, q is
\* the empty list when absent or empty, limit is a field the query may lack
ListFilters ==
    [provider : {NULL, "veo"}, status : {NULL, "running"},
     q : {<<>>, <<"a">>, <<"B">>}, cursor : {NULL, "0"} \cup IdSpace]
ListQueries ==
    ListFilters
    \cup { Put(f, "limit", n) : f \in ListFilters, n \in 1..MaxLimit }
    \cup { Put(f, "limit", 0) : f \in {x \in ListFilters : x.cursor = NULL /\ x.q = <<>>} }

\* listJobsQuerySchema: limit is an integer in 1..100, 20 when absent
listJobsQuerySchema(query) ==
    "limit" \in DOMAIN query => query.limit >= MinLimit /\ query.limit <= MaxLimitAllowed
LimitOf(query) == IF "limit" \in DOMAIN query THEN query.limit ELSE DefaultLimit

ToLower(c) == CASE c = "A" -> "a" [] c = "B" -> "b" [] OTHER -> c

\* prompt: { contains: q, mode: 'insensitive' }
ContainsInsensitive(prompt, q) ==
    \E start \in 0..(Len(prompt) - Len(q)) :
        \A k \in 1..Len(q) : ToLower(prompt[start + k]) = ToLower(q[k])

\* the where clause, with or without its id: { gt: cursor } part
Where(job, query, withCursor) ==
    /\ Truthy(query.provider) => job.provider = query.provider
    /\ Truthy(query.status) => job.status = query.status
    /\ Len(query.q) > 0 => ContainsInsensitive(job.prompt, query.q)
    /\ (withCursor /\ Truthy(query.cursor)) => IdGt(job.id, query.cursor)

\* orderBy: { createdAt: 'desc' }: the ids of a set of rows, newest first
RECURSIVE NewestFirst(_, _)
NewestFirst(store, ids) ==
    IF ids = {} THEN <<>>
    ELSE LET newest == CHOOSE id \in ids :
                           \A other \in ids : store[other].createdAt <= store[id].createdAt
         IN  <<newest>> \o NewestFirst(store, ids \ {newest})

Take(list, n) == SubSeq(list, 1, Min(n, Len(list)))

\* mutant: the total is counted with the cursor filter
ListResponse_TotalAfterCursor(store, query) ==
    LET limit == LimitOf(query)
        total == Cardinality({id \in DOMAIN store : Where(store[id], query, TRUE)})
        jobs == Take(NewestFirst(store, {id \in DOMAIN store : Where(store[id], query, TRUE)}),
                     limit + 1)
        hasMore == Len(jobs) > limit
        resultJobs == IF hasMore THEN Take(jobs, limit) ELSE jobs
        nextCursor == IF hasMore THEN resultJobs[Len(resultJobs)] ELSE NULL
    IN  [Response("list", NULL, 200, "OK", <<>>)
         EXCEPT !.body = [query |-> query, data |-> resultJobs,
                          meta |-> [total |-> total, limit |-> limit,
                                    nextCursor |-> nextCursor]]]

ListResponse(store, query) ==
    LET limit == LimitOf(query)
        total == Cardinality({id \in DOMAIN store : Where(store[id], query, FALSE)})
        jobs == Take(NewestFirst(store, {id \in DOMAIN store : Where(store[id], query, TRUE)}),
                     limit + 1)
        hasMore == Len(jobs) > limit
        resultJobs == IF hasMore THEN Take(jobs, limit) ELSE jobs
        nextCursor == IF hasMore THEN resultJobs[Len(resultJobs)] ELSE NULL
    IN  [Response("list", NULL, 200, "OK", <<>>)
         EXCEPT !.body = [query |-> query, data |-> resultJobs,
                          meta |-> [total |-> total, limit |-> limit,
                                    nextCursor |-> nextCursor]]]

List ==
    \E query \in ListQueries :
        /\ resp' = IF ~listJobsQuerySchema(query)
                   THEN Response("list", NULL, 400, "VALIDATION_ERROR", <<>>)
                   ELSE ListResponse(rows, query)
        /\ UNCHANGED <<adapters, rows, usedIds, soraJobStates, veoOperationStates,
                       refreshReqs, probe, aux>>

Next == Create \/ Refresh \/ Delete \/ Remix \/ Extend

Spec == Init /\ [][Next]_vars

\* the server started with USE_STUB_ADAPTERS=true, every refresh request counted
InitStubs ==
    /\ Init
    /\ adapters = Registry([USE_STUB_ADAPTERS |-> "true", OPENAI_API_KEY |-> "",
                            GOOGLE_APPLICATION_CREDENTIALS |-> ""])

CountedRefresh ==
    \E id \in IdSpace :
        /\ id \in DOMAIN rows => refreshReqs[id] < MaxRefreshReqs
        /\ RefreshHandler(id)
        /\ refreshReqs' = IF id \in DOMAIN rows
                          THEN [refreshReqs EXCEPT ![id] = @ + 1] ELSE refreshReqs
        /\ UNCHANGED <<probe, aux>>

NextScenario == Create \/ CountedRefresh \/ Remix \/ Extend \/ Delete

SpecScenario == InitStubs /\ [][NextScenario]_vars

\* the list endpoint over the stores of up to MaxJobs rows: each row is a created job,
\* as it is after creation, after a submit, or after a poll that found it complete
ListBodies ==
    [provider : Providers, prompt : Prompts, mode : {NULL}, params : {EmptyMap}]

RowStages(id, body, createdAt) ==
    LET fresh == Row(id, CreateData(body), createdAt)
        submitted ==
            IF body.provider = "sora"
            THEN SubmitUpdate(fresh, [providerJobId |-> "video_1",
                                      status |-> mapStatus("in_progress"),
                                      progressPct |-> Pct(50)])
            ELSE SubmitUpdate(fresh, [providerJobId |-> "projects/p/locations/us-central1/operations/op1",
                                      status |-> "running", progressPct |-> NullPct])
        done ==
            IF body.provider = "sora"
            THEN RefreshUpdate(submitted,
                     SoraRefreshResult([id |-> "video_1", status |-> "completed",
                                        progress |-> Pct(50)]))
            ELSE RefreshUpdate(submitted,
                     VeoRefreshResult(JobContext(submitted),
                         [done |-> TRUE,
                          response |-> [videos |-> <<VideoBytes>>,
                                        raiMediaFilteredCount |-> 0]]))
    IN  {fresh, submitted, done}

ListStores ==
    UNION { { store \in [ids -> UNION {RowStages(id, body, t) :
                                        id \in ids, body \in ListBodies, t \in 1..MaxJobs}] :
                /\ \A id \in ids : store[id].id = id
                /\ \A a, b \in ids : a # b => store[a].createdAt # store[b].createdAt }
            : ids \in SUBSET IdSpace }

InitList ==
    /\ AuxInit
    /\ boot = NoBoot
    /\ adapters = Registry([USE_STUB_ADAPTERS |-> "", OPENAI_API_KEY |-> "sk-key",
                            GOOGLE_APPLICATION_CREDENTIALS |-> "/sa.json"])
    /\ rows \in ListStores
    /\ usedIds = IdSpace
    /\ soraJobStates = [id \in {} |-> NULL]
    /\ veoOperationStates = [id \in {} |-> NULL]
    /\ refreshReqs = [id \in IdSpace |-> 0]
    /\ resp = Response("start", NULL, 200, "OK", <<>>)
    /\ probe = [a \in StubAdapters |->
                   [id \in ProbeIds |-> [providerJobId |-> NULL, results |-> <<>>]]]

NextList == List

SpecList == InitList /\ [][NextList]_vars

\* refresh requests one at a time, with the adapter.submit calls they make written
\* down: the provider job id the call returned, or NULL when it threw
TrackedRefresh ==
    \E id \in IdSpace :
        /\ Len(submits[id]) < MaxSubmits
        /\ RefreshHandler(id)
        /\ submits' = IF resp'.calls = <<"submit">>
                      THEN [submits EXCEPT ![id] =
                               Append(@, IF resp'.status = 500 THEN NULL
                                         ELSE rows'[id].providerJobId)]
                      ELSE submits
        /\ UNCHANGED <<refreshReqs, probe, pending, veoPoll, ui, veoAuth, boot, draft>>

NextSubmit == Create \/ TrackedRefresh \/ Delete

SpecSubmit == Init /\ [][NextSubmit]_vars

\* VeoAdapter.refresh on the answers of the fetch-operation endpoint: every field of
\* the answer but done is optional
VeoAnswerBodies ==
    { [k \in {} |-> NULL] }
    \cup [raiMediaFilteredCount : 0..MaxFiltered]
    \cup [videos : VeoVideoLists]
    \cup [videos : VeoVideoLists, raiMediaFilteredCount : 0..MaxFiltered]
VeoAnswers ==
    [done : BOOLEAN]
    \cup [done : BOOLEAN, error : VeoErrors]
    \cup [done : BOOLEAN, response : VeoAnswerBodies]
    \cup [done : BOOLEAN, error : VeoErrors, response : VeoAnswerBodies]

VeoPoll ==
    \E id \in IdSpace, response \in VeoAnswers :
        LET job == [id |-> id, providerJobId |-> "projects/p/locations/us-central1/operations/op1",
                    prompt |-> <<"a">>, params |-> EmptyMap, status |-> "running",
                    outputs |-> <<>>]
        IN  /\ veoPoll' = [job |-> id, response |-> response,
                           result |-> VeoRefreshResult(job, response)]
            /\ UNCHANGED <<adapters, rows, usedIds, soraJobStates, veoOperationStates,
                           refreshReqs, resp, probe, submits, pending, ui, veoAuth, boot, draft>>

NextVeoPoll == VeoPoll

SpecVeoPoll == Init /\ [][NextVeoPoll]_vars

\* POST /jobs/:id/refresh as the steps the event loop can interleave: the handler
\* awaits findUnique, then the adapter call, then prisma.videoJob.update, and other
\* handlers run between any two of them.  A request between awaits is a record in
\* pending: the row it read, the branch it took and, after the call, the result.
FreeSlots == (1..MaxPending) \ {r.slot : r \in pending}

\* await prisma.videoJob.findUnique: not found and terminal rows are answered at once
RefreshReadOf(id) ==
    /\ UNCHANGED <<adapters, rows, usedIds, soraJobStates, veoOperationStates,
                   refreshReqs, probe, submits, veoPoll, ui, veoAuth, boot, draft>>
    /\ IF id \notin DOMAIN rows
       THEN /\ resp' = NotFound("refresh", id)
            /\ UNCHANGED pending
       ELSE IF RefreshBranch(rows[id]) = "terminal"
       THEN /\ resp' = JobReply("refresh", rows[id], <<>>)
            /\ UNCHANGED pending
       ELSE /\ FreeSlots # {}
            /\ pending' = pending \cup
                   {[slot |-> CHOOSE n \in FreeSlots : \A m \in FreeSlots : n <= m,
                     id |-> id, job |-> rows[id], branch |-> RefreshBranch(rows[id]),
                     phase |-> "read"]}
            /\ UNCHANGED resp

RefreshRead == \E id \in IdSpace : RefreshReadOf(id)

\* await adapter.submit(jobContext) / await adapter.refresh(jobContext), on the row
\* the request read
\* the provider job ids the submit calls for a job returned
SubmittedIds(id) == {submits[id][i] : i \in 1..Len(submits[id])} \ {NULL}

\* a submit answers with an id of its own (Date.now() and Math.random() in the stubs)
RefreshCall ==
    \E r \in {x \in pending : x.phase = "read"} :
        /\ r.branch = "submit" => Len(submits[r.id]) < MaxSubmits
        /\ \E o \in IF r.branch = "submit"
                      THEN AdapterSubmit(getAdapter(r.job.provider), JobContext(r.job))
                      ELSE AdapterRefresh(getAdapter(r.job.provider), JobContext(r.job)) :
              /\ (r.branch = "submit" /\ ~o.threw)
                     => \A id \in IdSpace : o.result.providerJobId \notin SubmittedIds(id)
              /\ soraJobStates' = o.sora
              /\ veoOperationStates' = o.veo
              /\ submits' = IF r.branch = "submit"
                            THEN [submits EXCEPT ![r.id] =
                                     Append(@, IF o.threw THEN NULL
                                               ELSE o.result.providerJobId)]
                            ELSE submits
              /\ IF o.threw
                 THEN /\ pending' = pending \ {r}
                      /\ resp' = InternalError("refresh", r.id, <<r.branch>>)
                 ELSE /\ pending' = (pending \ {r}) \cup
                             {[slot |-> r.slot, id |-> r.id, job |-> r.job,
                               branch |-> r.branch, phase |-> "called",
                               result |-> o.result]}
                      /\ UNCHANGED resp
        /\ UNCHANGED <<adapters, rows, usedIds, refreshReqs, probe, veoPoll, ui, veoAuth, boot, draft>>

\* mutant: the update of a submit result is dropped when the row already has a
\* provider job id
WriteUpdate_FirstSubmitWins(current, r) ==
    IF r.branch = "submit"
    THEN IF Truthy(current.providerJobId) THEN current ELSE SubmitUpdate(current, r.result)
    ELSE RefreshUpdate(current, r.result)

\* prisma.videoJob.update({ where: { id }, data }): the data of the request's result
\* written over the row as it is now
WriteUpdate(current, r) ==
    IF r.branch = "submit" THEN SubmitUpdate(current, r.result)
    ELSE RefreshUpdate(current, r.result)

\* mutant: the update is an upsert of the row the request read
RefreshWrite_Upsert ==
    \E r \in {x \in pending : x.phase = "called"} :
        /\ pending' = pending \ {r}
        /\ IF r.id \notin DOMAIN rows
           THEN /\ resp' = JobReply("refresh", WriteUpdate(r.job, r), <<r.branch, "update">>)
                /\ rows' = [x \in DOMAIN rows \cup {r.id} |->
                               IF x = r.id THEN WriteUpdate(r.job, r) ELSE rows[x]]
           ELSE /\ rows' = [rows EXCEPT ![r.id] = WriteUpdate(rows[r.id], r)]
                /\ resp' = JobReply("refresh", WriteUpdate(rows[r.id], r),
                                    <<r.branch, "update">>)
        /\ UNCHANGED <<adapters, usedIds, soraJobStates, veoOperationStates,
                       refreshReqs, probe, submits, veoPoll, ui, veoAuth, boot, draft>>

\* await prisma.videoJob.update: throws when the row is gone
RefreshWrite ==
    \E r \in {x \in pending : x.phase = "called"} :
        /\ pending' = pending \ {r}
        /\ IF r.id \notin DOMAIN rows
           THEN /\ resp' = InternalError("refresh", r.id, <<r.branch, "update">>)
                /\ UNCHANGED rows
           ELSE /\ rows' = [rows EXCEPT ![r.id] = WriteUpdate(rows[r.id], r)]
                /\ resp' = JobReply("refresh", WriteUpdate(rows[r.id], r),
                                    <<r.branch, "update">>)
        /\ UNCHANGED <<adapters, usedIds, soraJobStates, veoOperationStates,
                       refreshReqs, probe, submits, veoPoll, ui, veoAuth, boot, draft>>

\* POST /jobs while fewer than MaxRaceJobs jobs were created
RaceCreate == Cardinality(usedIds) < MaxRaceJobs /\ Create

NextRace == RaceCreate \/ RefreshRead \/ RefreshCall \/ RefreshWrite \/ Delete

SpecRace == InitStubs /\ [][NextRace]_vars

\* Remix and extend between their awaits: findUnique and the checks, then the adapter
\* call on the row that was read, then prisma.videoJob.create
DeriveRaceBodies == {NoFields, [prompt |-> JNum(7)]}

DeriveRead ==
    \E op \in {"remix", "extend"}, id \in IdSpace :
        \E body \in DeriveRaceBodies :
            /\ UNCHANGED <<adapters, rows, usedIds, soraJobStates, veoOperationStates,
                           refreshReqs, probe, submits, veoPoll, ui, veoAuth, boot, draft>>
            /\ IF ~(IF op = "remix" THEN remixJobSchema(body) ELSE extendJobSchema(body))
               THEN /\ resp' = Response(op, id, 400, "VALIDATION_ERROR", <<>>)
                    /\ UNCHANGED pending
               ELSE IF id \notin DOMAIN rows
               THEN /\ resp' = NotFound(op, id)
                    /\ UNCHANGED pending
               ELSE LET check == IF op = "remix" THEN RemixCheck(rows[id])
                                 ELSE ExtendCheck(rows[id])
                    IN  IF check.code # "OK"
                        THEN /\ resp' = check
                             /\ UNCHANGED pending
                        ELSE /\ FreeSlots # {}
                             /\ pending' = pending \cup
                                    {[slot |-> CHOOSE n \in FreeSlots :
                                                  \A m \in FreeSlots : n <= m,
                                      id |-> id, job |-> rows[id], branch |-> op,
                                      phase |-> "checked", data |-> Parsed(body)]}
                             /\ UNCHANGED resp

DeriveCall ==
    \E r \in {x \in pending : x.phase = "checked"} :
        /\ \E o \in IF r.branch = "remix"
                      THEN AdapterRemix(getAdapter(r.job.provider), JobContext(r.job), r.data)
                      ELSE AdapterExtend(getAdapter(r.job.provider), JobContext(r.job),
                                         r.data) :
              /\ soraJobStates' = o.sora
              /\ veoOperationStates' = o.veo
              /\ IF o.threw
                 THEN /\ pending' = pending \ {r}
                      /\ resp' = InternalError(r.branch, r.id, <<r.branch>>)
                 ELSE /\ pending' = (pending \ {r}) \cup
                             {[slot |-> r.slot, id |-> r.id, job |-> r.job,
                               branch |-> r.branch, phase |-> "derived",
                               data |-> r.data, result |-> o.result]}
                      /\ UNCHANGED resp
        /\ UNCHANGED <<adapters, rows, usedIds, refreshReqs, probe, submits, veoPoll, ui,
                       veoAuth, boot, draft>>

DeriveCreate ==
    \E r \in {x \in pending : x.phase = "derived"} :
        \E new \in IdSpace \ usedIds :
            /\ pending' = pending \ {r}
            /\ rows' = CreateDerived(r.job, new,
                                     IF r.branch = "remix"
                                     THEN RemixData(r.job, r.data, r.result)
                                     ELSE ExtendData(r.job, r.data, r.result))
            /\ usedIds' = usedIds \cup {new}
            /\ resp' = [Response(r.branch, r.id, 201, "OK", <<r.branch>>)
                          EXCEPT !.body = [id |-> new]]
            /\ UNCHANGED <<adapters, soraJobStates, veoOperationStates, refreshReqs, probe,
                           submits, veoPoll, ui, veoAuth, boot, draft>>

\* a request arrives while fewer than MaxRacing requests are between their awaits
RacingRefreshRead == Cardinality(pending) < MaxRacing /\ RefreshRead

RacingDeriveRead == Cardinality(pending) < MaxRacing /\ DeriveRead

NextDeleteRace ==
    \/ RaceCreate \/ RacingRefreshRead \/ RefreshCall \/ RefreshWrite \/ Delete
    \/ RacingDeriveRead \/ DeriveCall \/ DeriveCreate

SpecDeleteRace == InitStubs /\ [][NextDeleteRace]_vars

\* The client.  A JobCard is rendered for every job of the list; Preview is rendered
\* for the selected job.  Each has an effect that sets an interval while the job it
\* shows is queued or running and clears it otherwise.
POLL_MS == 5000

\* mutant: a queued job is not polled
IsRunning_RunningOnly(status) == status = "running"

\* job.status === 'queued' || job.status === 'running'
IsRunning(status) == status \in {"queued", "running"}

\* the intervals set after the effects of a render have run
Intervals(jobs, selectedJobId) ==
    { <<"JobCard", id>> : id \in {x \in IdSpace : IsRunning(jobs[x])} }
    \cup (IF selectedJobId # NULL /\ IsRunning(jobs[selectedJobId])
          THEN { <<"Preview", selectedJobId>> } ELSE {})

Render(jobs, selectedJobId, inFlight) ==
    [jobs |-> jobs, selectedJobId |-> selectedJobId,
     intervals |-> Intervals(jobs, selectedJobId), inFlight |-> inFlight]

UiUnchanged ==
    UNCHANGED <<adapters, rows, usedIds, soraJobStates, veoOperationStates, refreshReqs,
                resp, probe, submits, pending, veoPoll, veoAuth, boot, draft>>

\* the list query returns a job that was created
UiListJob ==
    \E id \in IdSpace :
        /\ ui.jobs[id] = "absent"
        /\ ui' = Render([ui.jobs EXCEPT ![id] = "queued"], ui.selectedJobId, ui.inFlight)
        /\ UiUnchanged

\* handleSelect: dispatch(selectJob(isSelected ? null : job.id))
UiSelect ==
    \E id \in {x \in IdSpace : ui.jobs[x] # "absent"} :
        /\ ui' = Render(ui.jobs, IF ui.selectedJobId = id THEN NULL ELSE id, ui.inFlight)
        /\ UiUnchanged

\* an interval fires: refreshJob(job.id), whatever is already in flight
UiPoll ==
    \E t \in ui.intervals :
        /\ ui.inFlight[t[2]] < MaxInFlight
        /\ ui' = [ui EXCEPT !.inFlight[t[2]] = @ + 1]
        /\ UiUnchanged

\* a refresh request is answered: the job's tags are invalidated and the components
\* render with the status of the answer
UiRefreshed ==
    \E id \in IdSpace, status \in {"running", "succeeded", "failed"} :
        /\ ui.inFlight[id] > 0
        /\ ui' = Render([ui.jobs EXCEPT ![id] = status], ui.selectedJobId,
                        [ui.inFlight EXCEPT ![id] = @ - 1])
        /\ UiUnchanged

NextClient == UiListJob \/ UiSelect \/ UiPoll \/ UiRefreshed

SpecClient == Init /\ [][NextClient]_vars

\* The polling client and the server together.  The list query is fetched again
\* whenever its tags are invalidated, and shows the rows as they are then; a JobCard's
\* interval fires and its refresh request runs on the server between its awaits.
UiFetch ==
    /\ ui' = Render([id \in IdSpace |-> IF id \in DOMAIN rows THEN rows[id].status
                                        ELSE "absent"],
                    ui.selectedJobId, ui.inFlight)
    /\ UiUnchanged

\* setInterval callback: refreshJob(job.id), up to the handler's findUnique
PollFire == \E t \in ui.intervals : RefreshReadOf(t[2])

NextPolling ==
    RaceCreate \/ Delete \/ UiFetch \/ PollFire \/ RefreshCall \/ RefreshWrite

\* the timer keeps firing, the server keeps answering, the queries keep refetching
SpecPolling ==
    /\ InitStubs
    /\ [][NextPolling]_vars
    /\ WF_vars(UiFetch) /\ WF_vars(PollFire) /\ WF_vars(RefreshCall)
    /\ WF_vars(RefreshWrite)

\* VeoAdapter.getAccessToken.  Times are Date.now() values, in milliseconds.
TOKEN_REFRESH_MARGIN_SECONDS == 300

\* how far the clock moves between two calls
ClockSteps == {1, 999, 3299000}

\* the answers of the token endpoint: not ok, or a token and its lifetime in seconds
TokenAnswers ==
    { [ok |-> FALSE] }
    \cup [ok : {TRUE}, access_token : {"ya29.a", "ya29.b"}, expires_in : {300, 301, 3600}]

\* mutant: the cached token is used until it expires, with no margin
TokenIsFresh_NoMargin(cachedToken, now) ==
    cachedToken # NoToken /\ cachedToken.expiresAt > now

\* this.cachedToken && this.cachedToken.expiresAt > now + MARGIN * 1000
TokenIsFresh(cachedToken, now) ==
    /\ cachedToken # NoToken
    /\ cachedToken.expiresAt > now + TOKEN_REFRESH_MARGIN_SECONDS * 1000

AuthUnchanged ==
    UNCHANGED <<adapters, rows, usedIds, soraJobStates, veoOperationStates, refreshReqs,
                resp, probe, submits, pending, veoPoll, ui, boot, draft>>

ClockTick ==
    \E d \in ClockSteps :
        /\ veoAuth.ticks < MaxTicks
        /\ veoAuth' = [veoAuth EXCEPT !.now = @ + d, !.ticks = @ + 1]
        /\ AuthUnchanged

getAccessToken ==
    \E answer \in TokenAnswers :
        LET now == veoAuth.now
            before == veoAuth.cachedToken
        IN  /\ AuthUnchanged
            /\ IF TokenIsFresh(before, now)
               THEN veoAuth' = [veoAuth EXCEPT !.last =
                        [now |-> now, before |-> before, fetched |-> FALSE,
                         threw |-> FALSE, returned |-> before.accessToken]]
               ELSE IF ~answer.ok
               THEN veoAuth' = [veoAuth EXCEPT !.last =
                        [now |-> now, before |-> before, fetched |-> TRUE,
                         answer |-> answer, threw |-> TRUE]]
               ELSE LET token == [accessToken |-> answer.access_token,
                                  expiresAt |-> now + answer.expires_in * 1000]
                    IN  veoAuth' = [veoAuth EXCEPT
                            !.cachedToken = token,
                            !.last = [now |-> now, before |-> before, fetched |-> TRUE,
                                      answer |-> answer, threw |-> FALSE,
                                      returned |-> token.accessToken]]

NextAuth == ClockTick \/ getAccessToken

SpecAuth == Init /\ [][NextAuth]_vars

\* Concurrent getAccessToken calls: a call is suspended at its two awaits (fetch and
\* response.json()), and other calls of the one adapter run in between.
TOKEN_LIFETIME_SECONDS == 3600

\* the access tokens the endpoint issues, each issued once
IssuedTokens == {"ya29.a", "ya29.b"}

TokenLifetimes == {301, TOKEN_LIFETIME_SECONDS}

\* how far the clock moves between two steps of concurrent calls
RaceClockSteps == {1000, 3299000}

\* when the issued token really expires: its lifetime counted from its issue
RealExpiry(accessToken) ==
    (CHOOSE i \in veoAuth.issued : i.accessToken = accessToken).expiresAt

FreeCallSlots == (1..MaxTokenCalls) \ {c.slot : c \in veoAuth.inFlight}

\* mutant: the entry is given the lifetime the JWT asked for, not the one granted
TokenEntry_RequestedLifetime(now, tokenResponse) ==
    [accessToken |-> tokenResponse.access_token,
     expiresAt |-> now + TOKEN_LIFETIME_SECONDS * 1000]

\* this.cachedToken = { accessToken, expiresAt: now + expires_in * 1000 }
TokenEntry(now, tokenResponse) ==
    [accessToken |-> tokenResponse.access_token,
     expiresAt |-> now + tokenResponse.expires_in * 1000]

\* const now = Date.now(), the cache check, and the fetch being sent
TokenCallStart ==
    /\ AuthUnchanged
    /\ IF TokenIsFresh(veoAuth.cachedToken, veoAuth.now)
       THEN veoAuth' = [veoAuth EXCEPT !.done =
                [at |-> veoAuth.now, threw |-> FALSE, fetched |-> FALSE,
                 accessToken |-> veoAuth.cachedToken.accessToken]]
       ELSE \E slot \in FreeCallSlots :
                veoAuth' = [veoAuth EXCEPT !.inFlight = @ \cup
                    {[slot |-> slot, now |-> veoAuth.now, phase |-> "sent",
                      response |-> [ok |-> FALSE]]}]

\* the token endpoint answers a request: not ok, or a token issued at this moment
TokenIssue ==
    /\ AuthUnchanged
    /\ \E c \in {x \in veoAuth.inFlight : x.phase = "sent"} :
          \/ veoAuth' = [veoAuth EXCEPT !.inFlight =
                  (@ \ {c}) \cup {[c EXCEPT !.phase = "answered"]}]
          \/ \E t \in IssuedTokens \ {i.accessToken : i \in veoAuth.issued},
                n \in TokenLifetimes :
                veoAuth' = [veoAuth EXCEPT
                    !.issued = @ \cup {[accessToken |-> t,
                                        expiresAt |-> veoAuth.now + n * 1000]},
                    !.inFlight = (@ \ {c}) \cup
                        {[c EXCEPT !.phase = "answered",
                                   !.response = [ok |-> TRUE, access_token |-> t,
                                                 expires_in |-> n]]}]

\* the call resumes with the response: it throws, or stores the entry and returns
TokenCallFinish ==
    /\ AuthUnchanged
    /\ \E c \in {x \in veoAuth.inFlight : x.phase = "answered"} :
          IF ~c.response.ok
          THEN veoAuth' = [veoAuth EXCEPT
                   !.inFlight = @ \ {c},
                   !.done = [at |-> veoAuth.now, threw |-> TRUE, fetched |-> TRUE]]
          ELSE veoAuth' = [veoAuth EXCEPT
                   !.inFlight = @ \ {c},
                   !.cachedToken = TokenEntry(c.now, c.response),
                   !.done = [at |-> veoAuth.now, threw |-> FALSE, fetched |-> TRUE,
                             accessToken |-> TokenEntry(c.now, c.response).accessToken]]

\* time passes; a token request is answered within MaxLatency milliseconds
TokenClockTick ==
    /\ AuthUnchanged
    /\ \E d \in RaceClockSteps :
          /\ veoAuth.ticks < MaxTicks
          /\ \A c \in veoAuth.inFlight : veoAuth.now + d - c.now <= MaxLatency
          /\ veoAuth' = [veoAuth EXCEPT !.now = @ + d, !.ticks = @ + 1]

NextAuthRace == TokenCallStart \/ TokenIssue \/ TokenCallFinish \/ TokenClockTick

SpecAuthRace == Init /\ [][NextAuthRace]_vars

\* registry.ts, from the environment of the process on: a variable is unset (NULL),
\* empty, or set
ProcessEnvs ==
    [USE_STUB_ADAPTERS : {NULL, "", "true", "false", "TRUE", "1"},
     OPENAI_API_KEY : {NULL, "", "sk-key"},
     GOOGLE_APPLICATION_CREDENTIALS : {NULL, "", "/sa.json"}]

\* the provider ids a caller asks for
ProviderIds == {"sora", "veo", "runway", ""}

InitRegistry ==
    /\ AuxInit
    /\ boot \in [env : ProcessEnvs, call : {[none |-> TRUE]}]
    /\ adapters = Registry(boot.env)
    /\ rows = [id \in {} |-> NULL]
    /\ usedIds = {}
    /\ soraJobStates = [id \in {} |-> NULL]
    /\ veoOperationStates = [id \in {} |-> NULL]
    /\ refreshReqs = [id \in IdSpace |-> 0]
    /\ resp = Response("start", NULL, 200, "OK", <<>>)
    /\ probe = [a \in StubAdapters |->
                   [id \in ProbeIds |-> [providerJobId |-> NULL, results |-> <<>>]]]

\* getAdapter(providerId) of a caller: adapters.get, and the throw when it has none
GetAdapterCall ==
    \E providerId \in ProviderIds :
        /\ boot' = [boot EXCEPT !.call =
                        IF providerId \in DOMAIN adapters
                        THEN [providerId |-> providerId, threw |-> FALSE,
                              adapter |-> getAdapter(providerId)]
                        ELSE [providerId |-> providerId, threw |-> TRUE]]
        /\ UNCHANGED <<adapters, rows, usedIds, soraJobStates, veoOperationStates,
                       refreshReqs, resp, probe, submits, pending, veoPoll, ui, veoAuth,
                       draft>>

NextRegistry == GetAdapterCall

SpecRegistry == InitRegistry /\ [][NextRegistry]_vars

\* DraftBuilder: the options of the form
durationsByProvider == [veo |-> {"4", "6", "8"}, sora |-> {"4", "8", "12"}]
modelsByProvider ==
    [veo |-> {"veo-3.1-generate-preview", "veo-3.1-fast-generate-preview"},
     sora |-> {"sora-2"}]
aspectRatios == {"16:9", "9:16", "1:1"}
defaultModels == [veo |-> "veo-3.1-generate-preview", sora |-> "sora-2"]
defaultDurations == [veo |-> "8", sora |-> "8"]

\* Number(value) on the duration options
Number(value) == CHOOSE n \in 0..12 : ToString(n) = value

DraftUnchanged ==
    UNCHANGED <<adapters, rows, usedIds, soraJobStates, veoOperationStates, refreshReqs,
                resp, probe, submits, pending, veoPoll, ui, veoAuth, boot>>

\* setDraftProvider: the params are emptied
SetDraftProvider ==
    /\ DraftUnchanged
    /\ \E provider \in Providers :
          draft' = [draft EXCEPT !.provider = provider, !.params = EmptyMap]

\* handleParamChange(key, value) -> setDraftParams({ [key]: value })
SetDraftParams ==
    /\ DraftUnchanged
    /\ \E change \in [key : {"duration"}, value : durationsByProvider[draft.provider]]
                    \cup [key : {"model"}, value : modelsByProvider[draft.provider]]
                    \cup [key : {"aspectRatio"}, value : aspectRatios] :
          draft' = [draft EXCEPT !.params = Put(@, change.key, change.value)]

\* the params handleGenerate passes to createJob
DraftRequestParams(d) ==
    LET currentModel == IF "model" \in DOMAIN d.params THEN d.params["model"]
                        ELSE defaultModels[d.provider]
        currentDuration == IF "duration" \in DOMAIN d.params THEN d.params["duration"]
                           ELSE defaultDurations[d.provider]
        aspectRatio == IF "aspectRatio" \in DOMAIN d.params THEN d.params["aspectRatio"]
                       ELSE "16:9"
    IN  Put(Put(Put(d.params, "model", currentModel), "aspectRatio", aspectRatio),
            "duration", Number(currentDuration))

\* handleGenerate and POST /jobs: paramsJson is { ...params, mode, assets }, with the
\* draft's mode and no assets
HandleGenerate ==
    /\ DraftUnchanged
    /\ draft' = [draft EXCEPT
                    !.job = [provider |-> draft.provider,
                             params |-> Put(DraftRequestParams(draft), "mode", "generate")],
                    !.request = NoJob]

\* SoraAdapter.submit: the fields of the multipart form next to the prompt (no draft
\* value is falsy, so `if (params.x)` is the presence of the key)
SoraSubmitForm(params) ==
    [k \in {"model"} \cup ({"seconds", "size"} \cap DOMAIN params)
        |-> CASE k = "model" -> params["model"]
              [] k = "seconds" -> ToString(params["seconds"])
              [] k = "size" -> params["size"]]

\* VeoAdapter.submit: the parameters object of the predictLongRunning body
VeoSubmitParameters(params) ==
    [k \in {"aspectRatio", "sampleCount"} \cup ({"durationSeconds"} \cap DOMAIN params)
        |-> CASE k = "aspectRatio" -> params["aspectRatio"]
              [] k = "sampleCount" -> 1
              [] k = "durationSeconds" -> params["durationSeconds"]]

\* the refresh of the queued job: the real adapter's submit request
DraftSubmit ==
    /\ DraftUnchanged
    /\ draft.job # NoJob
    /\ draft' = [draft EXCEPT !.request =
                    IF draft.job.provider = "sora"
                    THEN [provider |-> "sora", form |-> SoraSubmitForm(draft.job.params)]
                    ELSE [provider |-> "veo",
                          parameters |-> VeoSubmitParameters(draft.job.params)]]

NextDraft == SetDraftProvider \/ SetDraftParams \/ HandleGenerate \/ DraftSubmit

SpecDraft == Init /\ [][NextDraft]_vars

\* every route on a job id
NextJob == Create \/ Get \/ Refresh \/ Delete \/ Remix \/ Extend \/ Content

SpecJob == Init /\ [][NextJob]_vars

\* the store with the content endpoint
NextContent == Create \/ Refresh \/ Delete \/ Content

SpecContent == Init /\ [][NextContent]_vars

----------------------------------------------------------------------------
(* The stub adapters called directly: submit, then refresh again and again *)

ProbeContext(a, id) ==
    [id |-> id, providerJobId |-> probe[a][id].providerJobId, prompt |-> <<"a">>,
     params |-> EmptyMap, status |-> "running", outputs |-> <<>>]

\* adapter.submit(job), and for a job that has one, adapter.remix / adapter.extend:
\* each sets the stub's counter of the job anew, so a new row of refresh calls begins
StubSubmit ==
    \E a \in StubAdapters, id \in ProbeIds :
        \E o \in AdapterSubmit(a, ProbeContext(a, id)) :
            /\ soraJobStates' = o.sora
            /\ veoOperationStates' = o.veo
            /\ probe' = [probe EXCEPT ![a][id] =
                            [providerJobId |-> o.result.providerJobId, results |-> <<>>]]
            /\ UNCHANGED <<adapters, rows, usedIds, refreshReqs, resp, aux>>

StubDerive ==
    \E a \in StubAdapters, id \in ProbeIds :
        /\ probe[a][id].providerJobId # NULL
        /\ \E o \in IF a = "SoraAdapterStub"
                    THEN AdapterRemix(a, ProbeContext(a, id), NoFields)
                    ELSE AdapterExtend(a, ProbeContext(a, id), NoFields) :
            /\ soraJobStates' = o.sora
            /\ veoOperationStates' = o.veo
            /\ probe' = [probe EXCEPT ![a][id].results = <<>>]
            /\ UNCHANGED <<adapters, rows, usedIds, refreshReqs, resp, aux>>

StubRefresh ==
    \E a \in StubAdapters, id \in ProbeIds :
        /\ Len(probe[a][id].results) < MaxStubCalls
        /\ \E o \in AdapterRefresh(a, ProbeContext(a, id)) :
            /\ soraJobStates' = o.sora
            /\ veoOperationStates' = o.veo
            /\ probe' = [probe EXCEPT ![a][id].results = Append(@, o.result)]
            /\ UNCHANGED <<adapters, rows, usedIds, refreshReqs, resp, aux>>

NextStub == StubSubmit \/ StubDerive \/ StubRefresh

SpecStub == InitStubs /\ [][NextStub]_vars

----------------------------------------------------------------------------
(* Properties of the job store *)

Jobs == DOMAIN rows

\* C1, as stated: for every job, non-empty outputs imply status succeeded and a
\* non-null error implies status failed.
C1_OutputsOnlyWhenSucceeded ==
    \A id \in Jobs :
        /\ Len(rows[id].outputsJson) > 0 => rows[id].status = "succeeded"
        /\ rows[id].errorJson # NullError => rows[id].status = "failed"

\* C1, amended: for every job, non-empty outputs imply status succeeded, or status
\* failed with a non-null error on a Veo job (the content-filtered result, which keeps
\* its outputs); a non-null error implies status failed.
C1_OutputsWhenSucceededOrFiltered ==
    \A id \in Jobs :
        /\ Len(rows[id].outputsJson) > 0 =>
               \/ rows[id].status = "succeeded"
               \/ /\ rows[id].status = "failed"
                  /\ rows[id].errorJson # NullError
                  /\ rows[id].provider = "veo"
        /\ rows[id].errorJson # NullError => rows[id].status = "failed"

C1_Witness ==
    \E id \in Jobs :
        /\ rows[id].status = "failed"
        /\ Len(rows[id].outputsJson) > 0
        /\ rows[id].errorJson # NullError
        /\ resp.op = "refresh" /\ resp.id = id /\ resp.calls = <<"refresh">>

\* C2: a refresh request never changes a providerJobId that is already non-null.
C2_ProviderJobIdWrittenOnce ==
    [][\A id \in Jobs :
          (resp'.op = "refresh" /\ rows[id].providerJobId # NULL)
              => (id \in DOMAIN rows' /\ rows'[id].providerJobId = rows[id].providerJobId)]_vars

C2_Witness ==
    /\ resp.op = "refresh" /\ resp.calls = <<"refresh">> /\ resp.code = "OK"
    /\ resp.id \in Jobs
    /\ rows[resp.id].providerJobId # NULL

\* C3: a remix or extend request, succeeding or failing, leaves every existing row
\* (the source job's among them) as it was, and a successful one adds exactly one row.
C3_DeriveKeepsSource ==
    [][resp'.op \in {"remix", "extend"} =>
          /\ \A id \in Jobs : id \in DOMAIN rows' /\ rows'[id] = rows[id]
          /\ resp'.code = "OK" => Cardinality(DOMAIN rows') = Cardinality(Jobs) + 1
          /\ resp'.code # "OK" => DOMAIN rows' = Jobs]_vars

C3_Witness ==
    /\ resp.op \in {"remix", "extend"} /\ resp.code = "OK"
    /\ resp.id \in Jobs /\ resp.body.id \in Jobs
    /\ rows[resp.body.id].paramsJson["sourceJobId"] = resp.id

\* C4, as stated: remix and extend on an existing job that is not succeeded answer
\* JOB_NOT_COMPLETE, whatever the job's provider.
C4_NotCompleteWhateverProvider ==
    [][(/\ resp'.op \in {"remix", "extend"}
        /\ resp'.code # "VALIDATION_ERROR"
        /\ resp'.id \in Jobs
        /\ rows[resp'.id].status # "succeeded")
          => resp'.code = "JOB_NOT_COMPLETE"]_vars

\* the provider an operation is for
ProviderOf(op) == IF op = "remix" THEN "sora" ELSE "veo"

\* C4, amended: remix and extend on an existing job that is not succeeded answer
\* JOB_NOT_COMPLETE when the job's provider is the operation's (sora for remix, veo
\* for extend), and UNSUPPORTED_OPERATION when it is not.
C4_NotCompleteAfterProviderCheck ==
    [][(/\ resp'.op \in {"remix", "extend"}
        /\ resp'.code # "VALIDATION_ERROR"
        /\ resp'.id \in Jobs
        /\ rows[resp'.id].status # "succeeded")
          => resp'.code = IF rows[resp'.id].provider = ProviderOf(resp'.op)
                          THEN "JOB_NOT_COMPLETE" ELSE "UNSUPPORTED_OPERATION"]_vars

C4_Witness ==
    /\ resp.op \in {"remix", "extend"} /\ resp.code = "JOB_NOT_COMPLETE"
    /\ resp.id \in Jobs
    /\ rows[resp.id].status # "succeeded"
    /\ rows[resp.id].provider = ProviderOf(resp.op)

\* C5: remix on a job that is not a sora job and extend on a job that is not a veo job
\* answer UNSUPPORTED_OPERATION, call no adapter and leave the store as it was.
C5_UnsupportedOperation ==
    [][(/\ resp'.op \in {"remix", "extend"}
        /\ resp'.code # "VALIDATION_ERROR"
        /\ resp'.id \in Jobs
        /\ rows[resp'.id].provider # ProviderOf(resp'.op))
          => /\ resp'.code = "UNSUPPORTED_OPERATION"
             /\ resp'.calls = <<>>
             /\ rows' = rows
             /\ soraJobStates' = soraJobStates
             /\ veoOperationStates' = veoOperationStates]_vars

C5_Witness ==
    /\ resp.op = "remix" /\ resp.code = "UNSUPPORTED_OPERATION"
    /\ resp.id \in Jobs
    /\ rows[resp.id].provider = "veo"
    /\ rows[resp.id].status = "succeeded"

\* C6: the content request of a succeeded job with an asset index that is not an index
\* of its outputs (too large, negative, not a number) fails: no redirect, no stream.
C6_ContentOutOfRangeFails ==
    (/\ resp.op = "content"
     /\ resp.id \in Jobs
     /\ rows[resp.id].status = "succeeded"
     /\ ~HasIndex(rows[resp.id].outputsJson, resp.body.assetIndex))
        => resp.status \notin {200, 302}

\* the number of refresh calls within which a stub reports succeeded
CompleteWithin(a) ==
    IF a = "SoraAdapterStub" THEN SoraStubCompleteAfter ELSE VeoStubCompleteAfter

\* C7: refresh called again and again on one job of a stub returns succeeded no later
\* than the 3rd call (Sora stub) or the 4th call (Veo stub), and every call after one
\* that returned succeeded returns succeeded with the same outputs.
C7_StubReachesSucceededAndStays ==
    \A a \in StubAdapters, id \in ProbeIds :
        LET results == probe[a][id].results
        IN  /\ Len(results) >= CompleteWithin(a) =>
                   \E k \in 1..CompleteWithin(a) : results[k].status = "succeeded"
            /\ \A i, j \in 1..Len(results) :
                   (i < j /\ results[i].status = "succeeded") =>
                       /\ results[j].status = "succeeded"
                       /\ results[j].outputs = results[i].outputs

C7_Witness ==
    /\ Len(probe["SoraAdapterStub"]["1"].results) > SoraStubCompleteAfter
    /\ Len(probe["VeoAdapterStub"]["1"].results) > VeoStubCompleteAfter
    /\ probe["VeoAdapterStub"]["1"].results[VeoStubCompleteAfter].status = "succeeded"
    /\ probe["VeoAdapterStub"]["1"].results[VeoStubCompleteAfter - 1].status = "running"

\* a job made by POST /jobs (not derived by remix or extend): its params name no job
\* that was ever in the store as its source
IsCreated(id) ==
    "sourceJobId" \in DOMAIN rows[id].paramsJson => rows[id].paramsJson.sourceJobId \notin IdSpace

\* C8, as stated (Sora stub): a created sora job is queued with no providerJobId; after
\* the first refresh request it has a providerJobId and is running; after three refresh
\* requests in all it is succeeded with exactly one output of kind video/mp4.
C8_SoraSucceededAfterThreeRequests ==
    \A id \in Jobs :
        (rows[id].provider = "sora" /\ IsCreated(id)) =>
            /\ refreshReqs[id] = 0 =>
                   rows[id].status = "queued" /\ rows[id].providerJobId = NULL
            /\ refreshReqs[id] = 1 =>
                   rows[id].status = "running" /\ rows[id].providerJobId # NULL
            /\ refreshReqs[id] = 3 =>
                   /\ rows[id].status = "succeeded"
                   /\ Len(rows[id].outputsJson) = 1
                   /\ rows[id].outputsJson[1].kind = "video/mp4"

\* C8, amended: as above, but succeeded with its one video/mp4 output after four
\* refresh requests in all (the first submits, the stub completes on its third poll).
C8_SoraSucceededAfterFourRequests ==
    \A id \in Jobs :
        (rows[id].provider = "sora" /\ IsCreated(id)) =>
            /\ refreshReqs[id] = 0 =>
                   rows[id].status = "queued" /\ rows[id].providerJobId = NULL
            /\ refreshReqs[id] = 1 =>
                   rows[id].status = "running" /\ rows[id].providerJobId # NULL
            /\ refreshReqs[id] = SoraStubCompleteAfter + 1 =>
                   /\ rows[id].status = "succeeded"
                   /\ Len(rows[id].outputsJson) = 1
                   /\ rows[id].outputsJson[1].kind = "video/mp4"

C8_Witness ==
    \E id \in Jobs :
        /\ rows[id].provider = "sora" /\ IsCreated(id)
        /\ refreshReqs[id] = SoraStubCompleteAfter + 1
        /\ rows[id].status = "succeeded"
        /\ resp.op = "refresh" /\ resp.id = id /\ resp.calls = <<"refresh">>

\* a remix request on a succeeded veo job answers UNSUPPORTED_OPERATION
RemixOnSucceededVeoUnsupported ==
    (/\ resp.op = "remix" /\ resp.code # "VALIDATION_ERROR"
     /\ resp.id \in Jobs
     /\ rows[resp.id].provider = "veo" /\ rows[resp.id].status = "succeeded")
        => resp.code = "UNSUPPORTED_OPERATION"

\* C9, as stated (Veo stub): a created veo job is succeeded after four refresh requests,
\* and a remix request on it then answers UNSUPPORTED_OPERATION.
C9_VeoSucceededAfterFourRequests ==
    /\ \A id \in Jobs :
           (rows[id].provider = "veo" /\ IsCreated(id) /\ refreshReqs[id] = 4)
               => rows[id].status = "succeeded"
    /\ RemixOnSucceededVeoUnsupported

\* C9, amended: a created veo job is succeeded after five refresh requests (the first
\* submits, the stub completes on its fourth poll), and a remix request on it then
\* answers UNSUPPORTED_OPERATION.
C9_VeoSucceededAfterFiveRequests ==
    /\ \A id \in Jobs :
           (/\ rows[id].provider = "veo" /\ IsCreated(id)
            /\ refreshReqs[id] = VeoStubCompleteAfter + 1)
               => rows[id].status = "succeeded"
    /\ RemixOnSucceededVeoUnsupported

C9_Witness ==
    /\ resp.op = "remix" /\ resp.code = "UNSUPPORTED_OPERATION"
    /\ resp.id \in Jobs
    /\ rows[resp.id].provider = "veo" /\ IsCreated(resp.id)
    /\ refreshReqs[resp.id] = VeoStubCompleteAfter + 1
    /\ rows[resp.id].status = "succeeded"

\* the rows a list request asks for: those that pass its provider, status and q
\* filters, and of these the ones after its cursor
FilterMatches(query) ==
    {id \in Jobs :
        /\ query.provider # NULL => rows[id].provider = query.provider
        /\ query.status # NULL => rows[id].status = query.status
        /\ \E i, j \in 0..Len(rows[id].prompt) :
               /\ j - i = Len(query.q)
               /\ \A k \in 1..Len(query.q) :
                      ToLower(rows[id].prompt[i + k]) = ToLower(query.q[k])}
RequestMatches(query) ==
    {id \in FilterMatches(query) : query.cursor # NULL => IdRank(id) > IdRank(query.cursor)}

\* C10: for every accepted list request, nextCursor is non-null exactly when more than
\* limit rows match the request, the page has at most limit rows, and meta.total is the
\* number of rows that pass the filters, the cursor ignored.
C10_ListPageAndTotal ==
    (resp.op = "list" /\ resp.code = "OK") =>
        LET query == resp.body.query
            limit == IF "limit" \in DOMAIN query THEN query.limit ELSE DefaultLimit
        IN  /\ (resp.body.meta.nextCursor # NULL)
                   <=> (Cardinality(RequestMatches(query)) > limit)
            /\ Len(resp.body.data) <= limit
            /\ resp.body.meta.total = Cardinality(FilterMatches(query))

C10_Witness ==
    /\ resp.op = "list" /\ resp.code = "OK"
    /\ resp.body.query.cursor # NULL
    /\ resp.body.query.q # <<>>
    /\ resp.body.meta.nextCursor # NULL
    /\ resp.body.meta.total > Len(resp.body.data)

\* C11: a refresh request on a row whose status is succeeded, failed or canceled
\* replies with the stored job, calls neither submit nor refresh of the adapter, and
\* leaves the row (and every other row) as it was.
C11_TerminalRefreshIsNoOp ==
    [][(/\ resp'.op = "refresh"
        /\ resp'.id \in Jobs
        /\ rows[resp'.id].status \in {"succeeded", "failed", "canceled"})
           => /\ rows' = rows
              /\ resp'.calls = <<>>
              /\ soraJobStates' = soraJobStates
              /\ veoOperationStates' = veoOperationStates
              /\ resp'.status = 200
              /\ resp'.body.data.id = resp'.id
              /\ resp'.body.data.status = rows[resp'.id].status
              /\ resp'.body.data.providerJobId = rows[resp'.id].providerJobId
              /\ resp'.body.data.outputs = rows[resp'.id].outputsJson
              /\ resp'.body.data.error = rows[resp'.id].errorJson]_vars

C11_Witness ==
    /\ resp.op = "refresh" /\ resp.calls = <<>> /\ resp.code = "OK"
    /\ resp.id \in Jobs
    /\ rows[resp.id].status = "failed"
    /\ resp.body.data.status = "failed"

\* the ids of deleted jobs: handed out once and no longer in the store
Deleted == usedIds \ Jobs

\* what C12 says of the delete request itself: an id that is not in the store gets
\* NOT_FOUND and no row changes; an id in the store loses exactly its row, with no
\* adapter call
DeleteStep ==
    /\ (resp'.op = "delete" /\ resp'.id \notin Jobs)
           => resp'.code = "NOT_FOUND" /\ rows' = rows
    /\ (resp'.op = "delete" /\ resp'.id \in Jobs)
           => /\ rows' = [x \in Jobs \ {resp'.id} |-> rows[x]]
              /\ resp'.code = "OK" /\ resp'.calls = <<>>
              /\ soraJobStates' = soraJobStates
              /\ veoOperationStates' = veoOperationStates

\* C12, as stated: delete behaves as in DeleteStep, and every get, refresh, content,
\* remix, extend or delete on the id of a deleted job returns NOT_FOUND.
C12_DeletedIdAlwaysNotFound ==
    [][/\ DeleteStep
       /\ (/\ resp'.op \in {"get", "refresh", "content", "remix", "extend", "delete"}
           /\ resp'.id \in Deleted)
              => resp'.code = "NOT_FOUND"]_vars

\* C12, amended: delete behaves as in DeleteStep, and every get, refresh, content or
\* delete, and every remix or extend whose body passes validation, on the id of a
\* deleted job returns NOT_FOUND and changes no row; a remix or extend whose body
\* fails validation returns VALIDATION_ERROR.
C12_DeletedIdNotFoundForValidRequests ==
    [][/\ DeleteStep
       /\ (/\ resp'.op \in {"get", "refresh", "content", "remix", "extend", "delete"}
           /\ resp'.id \in Deleted)
              => /\ resp'.code \in {"NOT_FOUND", "VALIDATION_ERROR"}
                 /\ resp'.code = "VALIDATION_ERROR" => resp'.op \in {"remix", "extend"}
                 /\ rows' = rows]_vars

C12_Witness ==
    /\ resp.op = "extend" /\ resp.code = "NOT_FOUND"
    /\ resp.id \in Deleted
    /\ Jobs # {}

\* C13: over refresh requests executed one at a time, whatever the provider returns
\* or throws, adapter.submit is invoked at most once for each job.
C13_SubmitAtMostOnce ==
    \A id \in IdSpace : Len(submits[id]) <= 1

\* C14: the job a refresh replies with after adapter.refresh returned has outputs when
\* it is succeeded and an error when it is failed, and no stored job is succeeded with
\* no outputs or failed with no error.
C14_TerminalResultIsPopulated ==
    /\ (resp.op = "refresh" /\ resp.calls = <<"refresh">> /\ resp.code = "OK")
           => /\ resp.body.data.status = "succeeded" => Len(resp.body.data.outputs) > 0
              /\ resp.body.data.status = "failed" => resp.body.data.error # NullError
    /\ \A id \in Jobs :
           /\ rows[id].status = "succeeded" => Len(rows[id].outputsJson) > 0
           /\ rows[id].status = "failed" => rows[id].errorJson # NullError

\* the filtered count and the number of videos of a Vertex AI answer
FilteredCount(response) ==
    IF "response" \in DOMAIN response /\ "raiMediaFilteredCount" \in DOMAIN response.response
    THEN response.response.raiMediaFilteredCount ELSE 0
VideoCount(response) ==
    IF "response" \in DOMAIN response /\ "videos" \in DOMAIN response.response
    THEN Len(response.response.videos) ELSE 0

\* C15: for a done answer with no error object, a filtered count above zero (with any
\* number of videos, zero included) gives a failed result whose error message states
\* the count, and the result is succeeded only when there are videos and none was
\* filtered.
C15_FilteredMeansFailedWithCount ==
    ("response" \in DOMAIN veoPoll /\ veoPoll.response.done
        /\ "error" \notin DOMAIN veoPoll.response)
       => /\ FilteredCount(veoPoll.response) > 0
               => /\ veoPoll.result.status = "failed"
                  /\ "error" \in DOMAIN veoPoll.result
                  /\ \E i \in 1..Len(veoPoll.result.error.message) :
                         veoPoll.result.error.message[i]
                             = ToString(FilteredCount(veoPoll.response))
          /\ veoPoll.result.status = "succeeded"
               => VideoCount(veoPoll.response) > 0 /\ FilteredCount(veoPoll.response) = 0

\* C16: no stored job is canceled: every stored status is queued, running, succeeded,
\* failed or unknown, and the job a create request stores is queued.
C16_NeverCanceled ==
    /\ \A id \in Jobs :
           rows[id].status \in {"queued", "running", "succeeded", "failed", "unknown"}
    /\ (resp.op = "create" /\ resp.code = "OK") => rows[resp.id].status = "queued"

C16_Witness ==
    /\ \E id \in Jobs : rows[id].status = "unknown"
    /\ \E id \in Jobs : rows[id].status = "failed" /\ rows[id].provider = "veo"
    /\ resp.op = "refresh"

\* C17: under any interleaving of refresh requests, a stored status that is succeeded
\* or failed never changes again.
C17_TerminalStatusIsFinal ==
    [][\A id \in Jobs :
          (rows[id].status \in {"succeeded", "failed"} /\ id \in DOMAIN rows')
              => rows'[id].status = rows[id].status]_vars

\* C18: two refresh requests that both read a null providerJobId both call submit;
\* each update of a submit result leaves the row holding that result's provider job
\* id, so the row holds the id of the update that ran last, and a provider job id
\* that was returned for a job and is not the one its row holds is held by no row.
C18_LastSubmitUpdateWins ==
    [][/\ \A r \in pending \ pending' :
              (r.phase = "called" /\ r.branch = "submit" /\ r.id \in Jobs)
                  => rows'[r.id].providerJobId = r.result.providerJobId
       /\ \A id \in DOMAIN rows' :
              /\ rows'[id].providerJobId # NULL => rows'[id].providerJobId \in SubmittedIds(id)'
              /\ \A p \in SubmittedIds(id)' :
                     p # rows'[id].providerJobId
                         => \A other \in DOMAIN rows' : rows'[other].providerJobId # p]_vars

C18_Witness ==
    /\ pending = {}
    /\ resp.op = "refresh" /\ resp.calls = <<"submit", "update">> /\ resp.code = "OK"
    /\ resp.id \in Jobs
    /\ Len(submits[resp.id]) = 2
    /\ submits[resp.id][1] # NULL /\ submits[resp.id][2] # NULL
    /\ submits[resp.id][1] # submits[resp.id][2]
    /\ rows[resp.id].providerJobId = submits[resp.id][1]

\* C19: for every job, at most one polling interval of the client is set and at most
\* one of its refresh requests is in flight.
C19_ClientSerializesRefreshes ==
    \A id \in IdSpace :
        /\ Cardinality({t \in ui.intervals : t[2] = id}) <= 1
        /\ ui.inFlight[id] <= 1

\* C20: a getAccessToken call at time now returns the cached token with no request to
\* the token endpoint exactly when a token is cached whose expiresAt is more than 300
\* seconds after now; otherwise it requests a token, caches it with expiresAt = now +
\* expires_in and returns it, or throws and leaves the cache as it was when the request
\* fails.
C20_TokenCache ==
    "now" \in DOMAIN veoAuth.last =>
        LET call == veoAuth.last
            usable == /\ call.before # NoToken
                      /\ call.before.expiresAt > call.now + 300 * 1000
        IN  /\ usable <=> ~call.fetched
            /\ ~call.fetched
                   => /\ ~call.threw
                      /\ call.returned = call.before.accessToken
                      /\ veoAuth.cachedToken = call.before
            /\ (call.fetched /\ call.answer.ok)
                   => /\ ~call.threw
                      /\ call.returned = call.answer.access_token
                      /\ veoAuth.cachedToken =
                             [accessToken |-> call.answer.access_token,
                              expiresAt |-> call.now + call.answer.expires_in * 1000]
            /\ (call.fetched /\ ~call.answer.ok)
                   => call.threw /\ veoAuth.cachedToken = call.before

\* a call exactly 300 seconds before the cached token expires requests a new one
C20_Witness ==
    /\ "now" \in DOMAIN veoAuth.last
    /\ veoAuth.last.before # NoToken
    /\ veoAuth.last.before.expiresAt = veoAuth.last.now + 300 * 1000
    /\ veoAuth.last.fetched /\ ~veoAuth.last.threw
    /\ veoAuth.cachedToken # veoAuth.last.before

\* C21: with getAccessToken calls interleaved at their awaits (each token request
\* answered within MaxLatency), a call that returns a token returns one that has not
\* expired at that moment, and the cached entry names an issued token and an expiresAt
\* that is not later than that token's real expiry and is still ahead when it is
\* written.
C21_RaceOnlyRefetches ==
    /\ "accessToken" \in DOMAIN veoAuth.done
           => /\ veoAuth.done.accessToken \in {i.accessToken : i \in veoAuth.issued}
              /\ RealExpiry(veoAuth.done.accessToken) > veoAuth.done.at
    /\ veoAuth.cachedToken # NoToken
           => /\ veoAuth.cachedToken.accessToken \in {i.accessToken : i \in veoAuth.issued}
              /\ veoAuth.cachedToken.expiresAt <= RealExpiry(veoAuth.cachedToken.accessToken)
    /\ ("accessToken" \in DOMAIN veoAuth.done /\ veoAuth.done.fetched)
           => \E i \in veoAuth.issued :
                 /\ i.accessToken = veoAuth.done.accessToken
                 /\ i.expiresAt > veoAuth.done.at

\* a call that started first finishes last and overwrites the newer token with its own
C21_Witness ==
    /\ veoAuth.inFlight = {}
    /\ Cardinality(veoAuth.issued) = 2
    /\ "accessToken" \in DOMAIN veoAuth.done /\ veoAuth.done.fetched
    /\ veoAuth.cachedToken # NoToken
    /\ \E i \in veoAuth.issued :
          /\ i.accessToken # veoAuth.cachedToken.accessToken
          /\ i.expiresAt > RealExpiry(veoAuth.cachedToken.accessToken)

\* the source asset an extend request selects: the one at sourceAssetIndex, or at 0
SelectedAsset(job, params) ==
    LET index == IF "sourceAssetIndex" \in DOMAIN params THEN params.sourceAssetIndex ELSE 0
    IN  IF index + 1 \in 1..Len(job.outputsJson) THEN job.outputsJson[index + 1]
        ELSE [missing |-> TRUE]

\* the request cannot be extended: no such asset, an asset without inline bytes, or a
\* model without video extension
NotExtendable(job, params) ==
    \/ "missing" \in DOMAIN SelectedAsset(job, params)
    \/ "bytesBase64" \notin DOMAIN SelectedAsset(job, params)
    \/ ~supportsExtend(getModel(IF "params" \in DOMAIN params THEN params.params
                                 ELSE EmptyMap))

\* C22: an extend request the real Veo adapter is called with, whose selected source
\* asset is missing or has no inline bytesBase64, or whose model does not support
\* extension, sends no request to the provider, is answered with an error, creates no
\* row and leaves every row as it was.
C22_ExtendFailsBeforeRequest ==
    [][(/\ resp' # resp
        /\ resp'.op = "extend" /\ "sent" \in DOMAIN resp'
        /\ NotExtendable(rows[resp'.id], resp'.params))
          => /\ ~resp'.sent
             /\ resp'.status >= 400
             /\ usedIds' = usedIds
             /\ rows' = rows]_vars

\* an extend of a succeeded Veo job whose asset has a uri and no bytes was refused
C22_Witness ==
    /\ resp.op = "extend" /\ "sent" \in DOMAIN resp /\ ~resp.sent
    /\ resp.status = 500
    /\ resp.id \in Jobs
    /\ rows[resp.id].status = "succeeded"
    /\ "uri" \in DOMAIN SelectedAsset(rows[resp.id], resp.params)
    /\ "bytesBase64" \notin DOMAIN SelectedAsset(rows[resp.id], resp.params)
    /\ supportsExtend(getModel(IF "params" \in DOMAIN resp.params THEN resp.params.params
                                ELSE EmptyMap))

\* C23: a remix or extend answered with 201 adds exactly one row and changes no other;
\* the new row's id differs from the source's, its provider is the source's, its
\* providerJobId and status are the adapter's, its prompt is the request's when that is
\* not empty and the source's otherwise, and its params hold the source's id as
\* sourceJobId and the source's providerJobId as sourceProviderJobId.
C23_DerivedJobRefersToSource ==
    [][(resp' # resp /\ resp'.op \in {"remix", "extend"} /\ resp'.status = 201)
          => LET sourceJob == rows[resp'.id]
                 new == resp'.body.id
                 request == resp'.request
             IN  /\ new # sourceJob.id
                 /\ new \notin DOMAIN rows
                 /\ DOMAIN rows' = DOMAIN rows \cup {new}
                 /\ \A id \in DOMAIN rows : rows'[id] = rows[id]
                 /\ rows'[new].id = new
                 /\ rows'[new].provider = sourceJob.provider
                 /\ rows'[new].providerJobId = resp'.result.providerJobId
                 /\ rows'[new].status = resp'.result.status
                 /\ rows'[new].prompt =
                        IF "prompt" \in DOMAIN request /\ request.prompt # <<>>
                        THEN request.prompt ELSE sourceJob.prompt
                 /\ "sourceJobId" \in DOMAIN rows'[new].paramsJson
                 /\ rows'[new].paramsJson["sourceJobId"] = sourceJob.id
                 /\ "sourceProviderJobId" \in DOMAIN rows'[new].paramsJson
                 /\ rows'[new].paramsJson["sourceProviderJobId"] = sourceJob.providerJobId]_vars

\* a remix of a source whose own params name another sourceJobId was created
C23_Witness ==
    /\ resp.op = "remix" /\ resp.status = 201
    /\ resp.id \in Jobs /\ resp.body.id \in Jobs
    /\ "sourceJobId" \in DOMAIN rows[resp.id].paramsJson
    /\ rows[resp.id].paramsJson["sourceJobId"] # resp.id
    /\ rows[resp.body.id].paramsJson["sourceJobId"] = resp.id

\* C24: a refresh request that ends with an error because adapter.submit or
\* adapter.refresh threw made that one provider call and no other, and leaves every
\* row exactly as it was before the request.
C24_ThrownCallSurfacedOnce ==
    [][(resp' # resp /\ resp'.op = "refresh" /\ resp'.status # 200 /\ resp'.calls # <<>>)
          => /\ resp'.calls \in {<<"submit">>, <<"refresh">>}
             /\ resp'.status = 500 /\ resp'.code = "INTERNAL_ERROR"
             /\ resp'.id \in DOMAIN rows
             /\ resp'.calls = <<RefreshBranch(rows[resp'.id])>>
             /\ rows' = rows
             /\ usedIds' = usedIds]_vars

\* a submit that threw left the job queued and without provider job id
C24_Witness ==
    /\ resp.op = "refresh" /\ resp.status = 500 /\ resp.calls = <<"submit">>
    /\ resp.id \in Jobs
    /\ rows[resp.id].status = "queued" /\ rows[resp.id].providerJobId = NULL

\* C25: the registry holds one adapter for sora and one for veo and never changes; the
\* adapter of a provider is the stub exactly when USE_STUB_ADAPTERS is 'true' or the
\* provider's credential variable is unset or empty; getAdapter returns the registered
\* adapter for 'sora' and 'veo' and throws for every other provider id.
C25_RegistryFixedByEnvironment ==
    /\ [](LET env == boot.env
              Unset(v) == v = NULL \/ v = ""
          IN  /\ DOMAIN adapters = {"sora", "veo"}
              /\ adapters["sora"] \in {"SoraAdapterStub", "SoraAdapter"}
              /\ adapters["veo"] \in {"VeoAdapterStub", "VeoAdapter"}
              /\ adapters["sora"] = "SoraAdapterStub"
                     <=> (env.USE_STUB_ADAPTERS = "true" \/ Unset(env.OPENAI_API_KEY))
              /\ adapters["veo"] = "VeoAdapterStub"
                     <=> (env.USE_STUB_ADAPTERS = "true"
                          \/ Unset(env.GOOGLE_APPLICATION_CREDENTIALS))
              /\ "providerId" \in DOMAIN boot.call
                     => IF boot.call.providerId \in {"sora", "veo"}
                        THEN /\ ~boot.call.threw
                             /\ boot.call.adapter = adapters[boot.call.providerId]
                        ELSE boot.call.threw)
    /\ [][adapters' = adapters]_vars

\* the flag forces the stub although the key is set, and an unknown provider id throws
C25_Witness ==
    /\ boot.env.USE_STUB_ADAPTERS = "true" /\ boot.env.OPENAI_API_KEY = "sk-key"
    /\ adapters["sora"] = "SoraAdapterStub"
    /\ "providerId" \in DOMAIN boot.call /\ boot.call.providerId = "runway"
    /\ boot.call.threw

\* C26: the submit request of a job created through the draft builder carries the
\* job's duration: as the seconds field of the Sora form, as the durationSeconds
\* parameter of the Veo request.
C26_DurationIsSubmitted ==
    draft.request # NoJob =>
        /\ draft.request.provider = "sora"
               => /\ "seconds" \in DOMAIN draft.request.form
                  /\ draft.request.form["seconds"] = ToString(draft.job.params["duration"])
        /\ draft.request.provider = "veo"
               => /\ "durationSeconds" \in DOMAIN draft.request.parameters
                  /\ draft.request.parameters["durationSeconds"]
                         = draft.job.params["duration"]

\* a created job is at rest: deleted, or succeeded with no interval of the client set
\* for it and no refresh request of it on the way
AtRest(id) ==
    \/ id \notin Jobs
    \/ /\ rows[id].status = "succeeded"
       /\ ui.jobs[id] = "succeeded"
       /\ \A t \in ui.intervals : t[2] # id
       /\ \A r \in pending : r.id # id

\* C27: with stub adapters and a client whose job cards keep polling, from some moment
\* on every created job is deleted or is succeeded for good, and the client has no
\* interval set and no refresh on the way for it.
C27_PollingEndsSucceeded == <>[](\A id \in usedIds : AtRest(id))

\* a job was polled to succeeded and its card stopped polling
C27_Witness ==
    \E id \in Jobs :
        /\ AtRest(id)
        /\ resp.op = "refresh" /\ resp.id = id /\ resp.calls = <<"refresh", "update">>

\* C28: with providers that answer submit, remix and extend with a non-empty id, every
\* stored job that is not queued has a provider job id, and no remix or extend is
\* answered MISSING_PROVIDER_JOB.
C28_NonQueuedHasProviderJobId ==
    /\ \A id \in Jobs :
           rows[id].status # "queued"
               => rows[id].providerJobId # NULL /\ rows[id].providerJobId # ""
    /\ resp.code # "MISSING_PROVIDER_JOB"

\* a succeeded job passed the provider job id check of remix or extend
C28_Witness ==
    /\ resp.op \in {"remix", "extend"} /\ resp.status = 201
    /\ resp.id \in Jobs
    /\ rows[resp.id].status = "succeeded"
    /\ rows[resp.id].providerJobId # NULL

\* the ids of the pages a client gets that starts with a request and passes each
\* nextCursor as the next request's cursor, until nextCursor is null
RECURSIVE Pages(_, _, _)
Pages(store, query, more) ==
    LET body == ListResponse(store, query).body
    IN  IF body.meta.nextCursor = NULL \/ more = 0 THEN body.data
        ELSE body.data \o Pages(store, [query EXCEPT !.cursor = body.meta.nextCursor],
                                more - 1)

\* C29: the pages that follow a list request without cursor hold every job that
\* matches the filters exactly once.
C29_PagesCoverEveryMatchOnce ==
    (resp.op = "list" /\ resp.code = "OK" /\ resp.body.query.cursor = NULL)
        => LET pages == Pages(rows, resp.body.query, Cardinality(DOMAIN rows))
           IN  \A id \in DOMAIN rows :
                   Cardinality({i \in 1..Len(pages) : pages[i] = id})
                       = IF Where(rows[id], resp.body.query, FALSE) THEN 1 ELSE 0

\* C30: whatever refresh, remix and extend requests read a job before its delete
\* completed, a delete answered with success leaves no row with that id, and an id
\* that was deleted has no row in any later state.
C30_DeletedRowNeverReturns ==
    [][/\ (resp' # resp /\ resp'.op = "delete" /\ resp'.code = "OK")
              => resp'.id \notin DOMAIN rows'
       /\ \A id \in Deleted : id \notin DOMAIN rows']_vars

\* the update of a refresh that had read the job found the row deleted
C30_Witness ==
    /\ resp.op = "refresh" /\ resp.status = 500
    /\ Len(resp.calls) = 2 /\ resp.calls[2] = "update"
    /\ resp.id \in Deleted

====
